---------------------------- MODULE Spec2Model ----------------------------
(***************************************************************************)
(* The DRM/KMS output backend of the compositor                            *)
(* (src/src/backends/metal/video.rs) and the atomic change builder it      *)
(* drives (src/src/video/drm.rs), as a state machine.                      *)
(*                                                                         *)
(* One display device is modelled in full: its connectors, crtcs and       *)
(* planes, the kernel state they mirror, the per-connector present task,   *)
(* hardware cursor objects and the reconfiguration passes.  The render     *)
(* device is either this device or a second one of which only the          *)
(* identity matters.  The kernel is the environment: its answers (commit   *)
(* results, hotplug state) are inputs.                                     *)
(*                                                                         *)
(* Abstractions, all of values the code never inspects:                    *)
(*  - a mode blob's id is the index of the mode it holds, so getblob is    *)
(*    the lookup of that index and create_blob yields it;                  *)
(*  - the two framebuffers of buffer pair n have ids FbId(n,0), FbId(n,1); *)
(*    a new pair takes the lowest pair number no live object refers to;    *)
(*  - next_buffer and cursor_front_buffer are kept mod 2, the only way     *)
(*    the code reads them (index % buffers.len(), len = 2);                *)
(*  - IN_FENCE_FD's value (-1i32 as u64) is written -1.                    *)
(***************************************************************************)
EXTENDS Integers, Sequences, FiniteSets, TLC

(***************************************************************************)
(* Bounds of the model.                                                    *)
(***************************************************************************)
\* reconfiguration requests (udev change events, session resumes, render
\* device changes, connectors enabled or disabled) in one behaviour
MaxPasses == 2
\* reconfiguration requests in a behaviour of the shared-crtc specification
MaxPassesShared == 3
\* reconfiguration requests in a behaviour of the rerun specification
MaxPassesUnprocessed == 4
\* injected failures (a commit the kernel refuses though the process is
\* master, a buffer allocation that fails) in one behaviour
MaxFaults == 1
\* change_object calls on the Change of the builder specification
MaxCalls == 4
\* flip-complete events the kernel queues before the handler reads them
MaxFlips == 2
\* kernel-side hotplug changes in one behaviour
MaxHotplug == 1

\* presentation feedbacks pending on a connector
MaxFeedbacks == 1
\* reads of the device file by event() in one behaviour
MaxReads == 2
\* records in one read of the device file
MaxRecords == 2
\* iterations of the loop of event() over one read
MaxIterations == 4

(***************************************************************************)
(* Program constants.                                                      *)
(***************************************************************************)
\* commit flags; a flags word is modelled as the set of the flags it holds
DRM_MODE_PAGE_FLIP_EVENT == "PAGE_FLIP_EVENT"
DRM_MODE_ATOMIC_NONBLOCK == "NONBLOCK"
DRM_MODE_ATOMIC_ALLOW_MODESET == "ALLOW_MODESET"

\* DrmCrtc::NONE, DrmBlob::NONE, DrmFb(0), and Option::None of an object
NONE == 0

XRGB8888 == "XRGB8888"
ARGB8888 == "ARGB8888"

(***************************************************************************)
(* Sequences helpers.                                                      *)
(***************************************************************************)
Last(s) == s[Len(s)]

\* the element of a set that has one: Only({ e : x \in {v} }) is e with v for
\* x, v being computed once
Only(S) == CHOOSE x \in S : TRUE

RECURSIVE SumSeq(_)
SumSeq(s) == IF s = <<>> THEN 0 ELSE Head(s) + SumSeq(Tail(s))

SeqRange(s) == { s[i] : i \in 1..Len(s) }

RECURSIVE SetToSeq(_)
\* the elements of a set of ids in ascending order
SetToSeq(S) ==
  IF S = {} THEN <<>>
  ELSE LET m == CHOOSE x \in S : \A y \in S : x <= y
       IN  <<m>> \o SetToSeq(S \ {m})

(***************************************************************************)
(* Change (drm.rs): the batch of property writes of one atomic commit.     *)
(***************************************************************************)
EmptyChange == [objects |-> <<>>, object_lengths |-> <<>>, props |-> <<>>, values |-> <<>>]

\* ObjectChange::change: one (property, value) pushed
ObjChange(ch, property_id, value) ==
  [ch EXCEPT !.props = Append(@, property_id), !.values = Append(@, value)]

RECURSIVE ObjChanges(_, _)
\* the closure f of change_object, as the sequence of writes it makes
ObjChanges(ch, writes) ==
  IF writes = <<>> THEN ch
  ELSE ObjChanges(ObjChange(ch, Head(writes)[1], Head(writes)[2]), Tail(writes))

change_object_regroup(ch, obj, writes) ==
  LET old_len == Len(ch.props)
      c1 == ObjChanges(ch, writes)
      new == Len(c1.props) - old_len
  IN  IF new > 0
      THEN IF obj \in SeqRange(c1.objects)
           THEN LET i == CHOOSE i \in 1..Len(c1.objects) : c1.objects[i] = obj
                IN  [c1 EXCEPT !.object_lengths[i] = @ + new]
           ELSE [c1 EXCEPT !.objects = Append(@, obj), !.object_lengths = Append(@, new)]
      ELSE c1

\* Change::change_object
change_object(ch, obj, writes) ==
  LET old_len == Len(ch.props)
      c1 == ObjChanges(ch, writes)
      new == Len(c1.props) - old_len
  IN  IF new > 0
      THEN IF c1.objects # <<>> /\ Last(c1.objects) = obj
           THEN [c1 EXCEPT !.object_lengths[Len(c1.object_lengths)] = @ + new]
           ELSE [c1 EXCEPT !.objects = Append(@, obj), !.object_lengths = Append(@, new)]
      ELSE c1

\* Vec::pop on a pool of recycled buffers, with unwrap_or_default
PopBuf(bufs) ==
  IF bufs = <<>> THEN [buf |-> <<>>, rest |-> <<>>, popped |-> 0]
  ELSE [buf |-> Last(bufs), rest |-> SubSeq(bufs, 1, Len(bufs) - 1), popped |-> 1]

\* DrmMaster::change without the four clear() calls
master_change_uncleared(u32_bufs, u64_bufs) ==
  LET o == PopBuf(u32_bufs)
      l == PopBuf(o.rest)
      p == PopBuf(l.rest)
      v == PopBuf(u64_bufs)
  IN  [change |-> [objects |-> o.buf, object_lengths |-> l.buf,
                   props |-> p.buf, values |-> v.buf],
       u32_bufs |-> p.rest, u64_bufs |-> v.rest,
       reused |-> o.popped + l.popped + p.popped + v.popped]

\* DrmMaster::change: the four vectors are taken from the pools of recycled
\* buffers (or are new) and cleared.  Yields the Change, the pools, and how
\* many of the vectors came from the pools
master_change(u32_bufs, u64_bufs) ==
  LET o == PopBuf(u32_bufs)
      l == PopBuf(o.rest)
      p == PopBuf(l.rest)
      v == PopBuf(u64_bufs)
  IN  [change |-> [objects |-> <<>>, object_lengths |-> <<>>,
                   props |-> <<>>, values |-> <<>>],
       u32_bufs |-> p.rest, u64_bufs |-> v.rest,
       reused |-> o.popped + l.popped + p.popped + v.popped]

\* Drop for Change: the vectors go to the pools with what they hold
drop_change(ch, u32_bufs, u64_bufs) ==
  [u32_bufs |-> u32_bufs \o <<ch.objects, ch.object_lengths, ch.props>>,
   u64_bufs |-> Append(u64_bufs, ch.values)]

\* the Change that DrmMaster::change yields with the pools u32_bufs and
\* u64_bufs: live, the Change exists (it has not been dropped); calls are the
\* change_object calls made on it, sent the arguments of the atomic commit
\* call once it is committed
BuilderFrom(u32_bufs, u64_bufs) ==
  LET r == master_change(u32_bufs, u64_bufs)
  IN  [change |-> r.change, calls |-> <<>>, sent |-> <<>>, live |-> TRUE,
       reused |-> r.reused, u32_bufs |-> r.u32_bufs, u64_bufs |-> r.u64_bufs]

\* the first Change of a master: the pools are empty
NewBuilder == BuilderFrom(<<>>, <<>>)

\* Change::commit: the arrays handed to the atomic commit call
mode_atomic_args(ch) ==
  [objects |-> ch.objects, object_lengths |-> ch.object_lengths,
   props |-> ch.props, values |-> ch.values]

(***************************************************************************)
(* DrmMaster::event: the events read from the device file.                 *)
(***************************************************************************)
\* the kernel's event types, and the sizes in bytes of drm_event (type,
\* length) and drm_event_vblank (type, length, user_data, tv_sec, tv_usec,
\* sequence, crtc_id)
DRM_EVENT_VBLANK == 1
DRM_EVENT_FLIP_COMPLETE == 2
DrmEventSize == 8
DrmEventVblankSize == 32

\* a u32 as its four bytes in memory, and the u32 at byte offset off of b
U32Bytes(n) ==
  <<n % 256, (n \div 256) % 256, (n \div 65536) % 256, (n \div 16777216) % 256>>

U32At(b, off) ==
  b[off + 1] + 256 * b[off + 2] + 65536 * b[off + 3] + 16777216 * b[off + 4]

\* the first size bytes of a drm_event_vblank as the kernel writes it
VblankBytes(ty, length, sequence, crtc_id, size) ==
  SubSeq(U32Bytes(ty) \o U32Bytes(length) \o U32Bytes(0) \o U32Bytes(0)
           \o U32Bytes(0) \o U32Bytes(0) \o U32Bytes(sequence) \o U32Bytes(crtc_id),
         1, size)

\* DrmEvent::FlipComplete of the drm_event_vblank at the start of b
FlipComplete(b) ==
  [tv_sec |-> U32At(b, 16), tv_usec |-> U32At(b, 20),
   sequence |-> U32At(b, 24), crtc_id |-> U32At(b, 28)]

\* what event() returns
EventOk(e) == [tag |-> "Ok", event |-> e, err |-> "none"]
EventErr(e) == [tag |-> "Err", event |-> <<>>, err |-> e]

\* DrmMaster::new: no event is queued and nothing has been read; event() is
\* not running
NewMaster ==
  [events |-> <<>>, buf |-> <<>>, pc |-> "idle", iterations |-> 0, reads |-> 0,
   ret |-> [tag |-> "none", event |-> <<>>, err |-> "none"]]

\* Ok(self.events.pop()): the oldest queued event, if there is one
pop_event(m) ==
  [m EXCEPT !.pc = "idle", !.buf = <<>>, !.iterations = 0,
            !.events = IF @ = <<>> THEN @ ELSE Tail(@),
            !.ret = EventOk(IF m.events = <<>> THEN <<>> ELSE <<Head(m.events)>>)]

\* return Err(e): the events queued so far stay queued
fail_event(m, e) ==
  [m EXCEPT !.pc = "idle", !.buf = <<>>, !.iterations = 0, !.ret = EventErr(e)]

\* event() up to its loop; rd is what read() on the device file answers
event_begin(m, rd) ==
  IF m.events # <<>> THEN pop_event(m)
  ELSE IF rd.errno = "EAGAIN" THEN [m EXCEPT !.ret = EventOk(<<>>)]
  ELSE IF rd.errno # "none" THEN fail_event(m, "ReadEvents")
  ELSE [m EXCEPT !.buf = rd.bytes, !.pc = "loop", !.iterations = 0,
                 !.reads = @ + 1]

\* the body of the loop of event(): the record at the start of buf
event_iteration(m) ==
  IF Len(m.buf) < DrmEventSize THEN fail_event(m, "InvalidRead")
  ELSE
    LET ty == U32At(m.buf, 0)
        len == U32At(m.buf, 4)
    IN  IF len > Len(m.buf) THEN fail_event(m, "InvalidRead")
        ELSE IF ty = DRM_EVENT_FLIP_COMPLETE /\ Len(m.buf) < DrmEventVblankSize
          THEN fail_event(m, "InvalidRead")
        ELSE [m EXCEPT !.events = IF ty = DRM_EVENT_FLIP_COMPLETE
                                    THEN Append(@, FlipComplete(m.buf)) ELSE @,
                       !.buf = SubSeq(m.buf, len + 1, Len(m.buf)),
                       !.iterations = @ + 1]

\* event() from the condition of its loop on
event_loop(m) == IF Len(m.buf) > 0 THEN event_iteration(m) ELSE pop_event(m)

(***************************************************************************)
(* Modes (DrmModeInfo) and monitors.                                       *)
(***************************************************************************)
Mode1080 ==
  [clock |-> 148500, hdisplay |-> 1920, hsync_start |-> 2008, hsync_end |-> 2052,
   htotal |-> 2200, hskew |-> 0, vdisplay |-> 1080, vsync_start |-> 1084,
   vsync_end |-> 1089, vtotal |-> 1125, vscan |-> 0, vrefresh |-> 60, flags |-> 5]

\* the same resolution and timings, interlaced: differs from Mode1080 in flags only
Mode1080i == [Mode1080 EXCEPT !.flags = 21]

Mode720 ==
  [clock |-> 74250, hdisplay |-> 1280, hsync_start |-> 1390, hsync_end |-> 1430,
   htotal |-> 1650, hskew |-> 0, vdisplay |-> 720, vsync_start |-> 725,
   vsync_end |-> 730, vtotal |-> 750, vscan |-> 0, vrefresh |-> 60, flags |-> 5]

\* the mode blobs of the kernel: blob id i holds ModeTable[i]
ModeTable == <<Mode1080, Mode1080i, Mode720>>

modes_equal_resolution(a, b) ==
  a.hdisplay = b.hdisplay /\ a.vdisplay = b.vdisplay /\ a.vrefresh = b.vrefresh

modes_equal(a, b) ==
  /\ a.clock = b.clock
  /\ a.hdisplay = b.hdisplay
  /\ a.hsync_start = b.hsync_start
  /\ a.hsync_end = b.hsync_end
  /\ a.htotal = b.htotal
  /\ a.hskew = b.hskew
  /\ a.vdisplay = b.vdisplay
  /\ a.vsync_start = b.vsync_start
  /\ a.vsync_end = b.vsync_end
  /\ a.vtotal = b.vtotal
  /\ a.vscan = b.vscan
  /\ a.vrefresh = b.vrefresh
  /\ a.flags = b.flags

\* DrmModeInfo::create_blob: the id of the blob holding the mode
create_blob(mode) == CHOOSE i \in 1..Len(ModeTable) : ModeTable[i] = mode

\* DrmMaster::getblob::<drm_mode_modeinfo>: Ok(mode) as <<mode>>, Err as <<>>
getblob(id) == IF id \in 1..Len(ModeTable) THEN <<ModeTable[id]>> ELSE <<>>

\* what the EDID of a monitor yields; NoMonitor is what a connector without
\* (readable) EDID is given: three empty strings
NoMonitor == [manufacturer |-> "", name |-> "", serial_number |-> ""]
MonitorA == [manufacturer |-> "ACM", name |-> "Panel", serial_number |-> "S1"]
\* the same make and model, another unit
MonitorB == [manufacturer |-> "ACM", name |-> "Panel", serial_number |-> "S2"]

is_same_monitor_ignoring_serial(a, b) ==
  a.monitor_manufacturer = b.monitor_manufacturer /\ a.monitor_name = b.monitor_name

\* ConnectorDisplayData::is_same_monitor
is_same_monitor(a, b) ==
  /\ a.monitor_manufacturer = b.monitor_manufacturer
  /\ a.monitor_name = b.monitor_name
  /\ a.monitor_serial_number = b.monitor_serial_number

(***************************************************************************)
(* The device inventory (MetalDrmDevice: crtcs, planes, encoders), fixed   *)
(* when the device is created.  Object ids: connectors 31.., crtcs 41..,   *)
(* planes 51.., encoders 61...  possible_crtcs is the kernel's bit mask,   *)
(* kept as the set of crtc indices whose bit is set.                       *)
(***************************************************************************)
\* the device of the model and the other GPU that may be the render device
ThisDev == 1
OtherDev == 2

\* Scenario A of the spec: 1 crtc, 1 connector, 1 primary and 1 cursor plane
InventoryA ==
  [crtcs |-> <<41>>,
   planes |-> {51, 52},
   ty |-> (51 :> "Primary" @@ 52 :> "Cursor"),
   possible_crtcs |-> (51 :> {0} @@ 52 :> {0}),
   formats |-> (51 :> {XRGB8888, ARGB8888} @@ 52 :> {ARGB8888}),
   encoders |-> (61 :> {0}),
   conn_encoders |-> (31 :> {61}),
   cursor_width |-> 64, cursor_height |-> 64]

\* two connectors that reach both crtcs; primary plane 51 serves both crtcs,
\* primary plane 53 only the second; one cursor plane for both crtcs
InventoryB ==
  [crtcs |-> <<41, 42>>,
   planes |-> {51, 52, 53},
   ty |-> (51 :> "Primary" @@ 52 :> "Cursor" @@ 53 :> "Primary"),
   possible_crtcs |-> (51 :> {0, 1} @@ 52 :> {0, 1} @@ 53 :> {1}),
   formats |-> (51 :> {XRGB8888, ARGB8888} @@ 52 :> {ARGB8888} @@ 53 :> {XRGB8888}),
   encoders |-> (61 :> {0, 1}),
   conn_encoders |-> (31 :> {61} @@ 32 :> {61}),
   cursor_width |-> 64, cursor_height |-> 64]

\* the device of InventoryB with an encoder for each connector: the first
\* connector reaches the first crtc only, the second one both
InventoryReach ==
  [InventoryB EXCEPT !.encoders = (61 :> {0} @@ 62 :> {0, 1}),
                     !.conn_encoders = (31 :> {61} @@ 32 :> {62})]

\* two connectors that reach the one crtc
InventoryShared ==
  [crtcs |-> <<41>>,
   planes |-> {51, 52},
   ty |-> (51 :> "Primary" @@ 52 :> "Cursor"),
   possible_crtcs |-> (51 :> {0} @@ 52 :> {0}),
   formats |-> (51 :> {XRGB8888, ARGB8888} @@ 52 :> {ARGB8888}),
   encoders |-> (61 :> {0}),
   conn_encoders |-> (31 :> {61} @@ 32 :> {61}),
   cursor_width |-> 64, cursor_height |-> 64]

VARIABLES
  inv,                 \* MetalDrmDevice.crtcs/planes/encoders: the inventory
  ctx,                 \* MetalBackend.ctx: NONE or the render device's id
  unprocessed_change,  \* MetalDrmDeviceData.unprocessed_change
  connectors,          \* keys of MetalDrmDeviceData.connectors
  futures,             \* keys of MetalDrmDeviceData.futures (present tasks)
  conn,                \* MetalConnector objects, by connector id
  crtc,                \* MetalCrtc objects, by crtc id
  plane,               \* MetalPlane objects, by plane id
  hcs,                 \* MetalHardwareCursor objects handed out, by connector
  kern,                \* the kernel's state of the device
  flips,               \* flip-complete events queued on the device file
  hotplugs,            \* kernel-side changes so far
  passes,              \* reconfiguration requests still to come
  faults,              \* injected failures so far
  swap_requests,       \* swap_buffer() calls so far mod 2, by connector (history)
  eacces,              \* by connector: the last commit of present() failed
                       \* with EACCES (history)
  handle_events,       \* MetalDrmDevice.handle_events holds the task that
                       \* reads the device's events
  builder,             \* a Change under construction and the calls made on it
  master,              \* DrmMaster.events, the bytes of the last read still to
                       \* parse, and where event() is
  last                 \* what the last step did (commits, renders, events)

vars == <<inv, ctx, unprocessed_change, connectors, futures, conn, crtc, plane,
          hcs, kern, flips, hotplugs, passes, faults,
          swap_requests, eacces, handle_events, builder, master, last>>

CrtcIds(i) == SeqRange(i.crtcs)

\* create_crtc: the position of the crtc in the resources list
CrtcIdx(i, x) == (CHOOSE k \in 1..Len(i.crtcs) : i.crtcs[k] = x) - 1

\* MetalCrtc.possible_planes (create_crtc)
possible_planes(i, x) == { p \in i.planes : CrtcIdx(i, x) \in i.possible_crtcs[p] }

\* MetalEncoder.crtcs (create_encoder)
EncoderCrtcs(i, e) == { x \in CrtcIds(i) : CrtcIdx(i, x) \in i.encoders[e] }

\* the ids of the two framebuffers of buffer pair n
FbId(n, k) == 100 + 2 * n + k

\* Option<Rc<[RenderBuffer; 2]>>::None
NoBuffers == [id |-> NONE, dev_tex |-> FALSE, render_fb |-> FALSE]

(***************************************************************************)
(* The state as one record, for the operators that model the handlers.     *)
(***************************************************************************)
Cur ==
  [inv |-> inv, ctx |-> ctx, unprocessed_change |-> unprocessed_change,
   connectors |-> connectors, futures |-> futures, conn |-> conn, crtc |-> crtc,
   plane |-> plane, hcs |-> hcs, kern |-> kern, flips |-> flips,
   hotplugs |-> hotplugs, passes |-> passes, faults |-> faults,
   swap_requests |-> swap_requests, eacces |-> eacces,
   handle_events |-> handle_events,
   commits |-> <<>>, renders |-> <<>>, emitted |-> <<>>, backend_events |-> <<>>,
   pass |-> <<>>, feedbacks |-> <<>>]

\* `last` after a step that committed, rendered and emitted nothing
Idle ==
  [op |-> "", c |-> NONE, arg |-> NONE, commits |-> <<>>, renders |-> <<>>,
   emitted |-> <<>>, backend_events |-> <<>>, pass |-> <<>>, feedbacks |-> <<>>]

\* the next state is s; `last` tells what the step committed, rendered and
\* emitted, and for such a step (and for every step named with always) op, c
\* and arg name the handler, its connector and its argument
Logs(s, op, c, arg, always) ==
  \E t \in {s} :
      /\ inv' = t.inv
      /\ ctx' = t.ctx
      /\ unprocessed_change' = t.unprocessed_change
      /\ connectors' = t.connectors
      /\ futures' = t.futures
      /\ conn' = t.conn
      /\ crtc' = t.crtc
      /\ plane' = t.plane
      /\ hcs' = t.hcs
      /\ kern' = t.kern
      /\ flips' = t.flips
      /\ hotplugs' = t.hotplugs
      /\ passes' = t.passes
      /\ faults' = t.faults
      /\ swap_requests' = t.swap_requests
      /\ eacces' = t.eacces
      /\ handle_events' = t.handle_events
      /\ builder' = builder
      /\ master' = master
      /\ last' = IF /\ t.commits = <<>> /\ t.renders = <<>> /\ t.emitted = <<>>
                     /\ t.backend_events = <<>> /\ t.pass = <<>>
                     /\ t.feedbacks = <<>> /\ ~always
                    THEN Idle
                    ELSE [op |-> op, c |-> c, arg |-> arg, commits |-> t.commits,
                          renders |-> t.renders, emitted |-> t.emitted,
                          backend_events |-> t.backend_events, pass |-> t.pass,
                          feedbacks |-> t.feedbacks]

Becomes(s, op, c) == Logs(s, op, c, NONE, FALSE)

(***************************************************************************)
(* The kernel: what an atomic commit that succeeds changes, and what the   *)
(* enumeration calls answer.                                               *)
(***************************************************************************)
RECURSIVE GroupOf(_, _, _)
\* the group (index into objects) that holds property write j
GroupOf(ch, j, g) ==
  IF j <= ch.object_lengths[g] THEN g
  ELSE GroupOf([ch EXCEPT !.object_lengths[g + 1] = @ + ch.object_lengths[g]], j, g + 1)

\* the object that property write j of the batch is applied to (mode_atomic)
ObjectOf(ch, j) == ch.objects[GroupOf(ch, j, 1)]

KernelWrite(k, i, obj, prop, v) ==
  IF obj \in DOMAIN k.conn_crtc /\ prop = "CRTC_ID"
    THEN [k EXCEPT !.conn_crtc[obj] = v]
  ELSE IF obj \in CrtcIds(i) /\ prop = "ACTIVE"
    THEN [k EXCEPT !.crtc_active[obj] = (v = 1)]
  ELSE IF obj \in CrtcIds(i) /\ prop = "MODE_ID"
    THEN [k EXCEPT !.crtc_mode[obj] = v]
  ELSE IF obj \in i.planes /\ prop = "CRTC_ID"
    THEN [k EXCEPT !.plane_crtc[obj] = v]
  ELSE IF obj \in i.planes /\ prop = "FB_ID"
    THEN [k EXCEPT !.plane_fb[obj] = v]
  ELSE k

RECURSIVE KernelApplyRange(_, _, _, _, _)
\* the kernel state after the writes lo..hi of the batch, in their order
KernelApplyRange(k, i, ch, lo, hi) ==
  IF lo > hi THEN k
  ELSE IF lo = hi
    THEN KernelWrite(k, i, ObjectOf(ch, lo), ch.props[lo], ch.values[lo])
  ELSE Only({ KernelApplyRange(k1, i, ch, (lo + hi) \div 2 + 1, hi) :
                k1 \in {KernelApplyRange(k, i, ch, lo, (lo + hi) \div 2)} })

\* the kernel state after the writes j.. of the batch
KernelApply(k, i, ch, j) == KernelApplyRange(k, i, ch, j, Len(ch.props))

\* the crtcs a batch flips: those active after it that a plane written by it
\* is bound to before or after it
FlipCrtcs(s, ch) ==
  LET k2 == KernelApply(s.kern, s.inv, ch, 1)
      written == SeqRange(ch.objects) \cap s.inv.planes
  IN  { x \in ({ s.kern.plane_crtc[p] : p \in written }
                \cup { k2.plane_crtc[p] : p \in written }) \ {NONE} :
          k2.crtc_active[x] }

\* what the kernel may answer to a commit: EACCES exactly when the process is
\* not DRM master; a commit that asks for a completion event and flips no
\* active crtc is refused, as is a nonblocking one while the event queue is
\* full
CommitResults(s, flags, ch) ==
  IF ~s.kern.master THEN {"EACCES"}
  ELSE IF DRM_MODE_PAGE_FLIP_EVENT \in flags
          /\ (FlipCrtcs(s, ch) = {} \/ Len(s.flips) >= MaxFlips)
    THEN {"EINVAL"}
  ELSE {"ok", "EINVAL"}

\* the framebuffers a batch programs
FbsOf(ch) ==
  { ch.values[j] : j \in { n \in 1..Len(ch.props) : ch.props[n] = "FB_ID" } } \ {0}

\* Change::commit (mode_atomic) with the kernel's answer res; a commit of
\* present() (by # NONE) that succeeds queues the flip-complete event of each
\* crtc it flips (the event carries crtc_id; by records whose commit it
\* completes)
Commit(s, by, flags, ch, res) ==
  LET rec == [by |-> by, flags |-> flags, objects |-> ch.objects,
              object_lengths |-> ch.object_lengths, props |-> ch.props,
              values |-> ch.values, result |-> res]
      s1 == [s EXCEPT !.commits = Append(@, rec)]
  IN  IF res # "ok" THEN s1
      ELSE [s1 EXCEPT
              !.kern = KernelApply(@, s.inv, ch, 1),
              !.flips = IF DRM_MODE_PAGE_FLIP_EVENT \in flags
                          THEN @ \o [n \in 1..Cardinality(FlipCrtcs(s, ch)) |->
                                       [crtc_id |-> SetToSeq(FlipCrtcs(s, ch))[n],
                                        by |-> by, fbs |-> FbsOf(ch)]]
                          ELSE @]

\* create_connector_display_data: the display data the kernel reports for c
create_connector_display_data(s, c) ==
  LET connected == s.kern.connection[c] = "Connected"
      mon == IF connected THEN s.kern.monitor[c] ELSE NoMonitor
  IN  [crtc_id |-> s.kern.conn_crtc[c],
       crtcs |-> UNION { EncoderCrtcs(s.inv, e) : e \in s.inv.conn_encoders[c] },
       modes |-> s.kern.modes[c],
       mode |-> IF s.kern.modes[c] = <<>> THEN <<>> ELSE <<Head(s.kern.modes[c])>>,
       monitor_manufacturer |-> mon.manufacturer,
       monitor_name |-> mon.name,
       monitor_serial_number |-> mon.serial_number,
       connection |-> s.kern.connection[c]]

\* create_connector: a new MetalConnector
create_connector(s, c) ==
  [enabled |-> TRUE, can_present |-> TRUE, has_damage |-> TRUE,
   cursor_changed |-> FALSE, connect_sent |-> FALSE,
   primary_plane |-> NONE, cursor_plane |-> NONE, crtc |-> NONE,
   buffers |-> NoBuffers, next_buffer |-> 0,
   cursor_generation |-> 0, cursor_x |-> 0, cursor_y |-> 0,
   cursor_enabled |-> FALSE, cursor_buffers |-> NoBuffers,
   cursor_front_buffer |-> 0, cursor_swap_buffer |-> FALSE,
   present_trigger |-> FALSE,
   presentation_feedbacks |-> 0,
   display |-> create_connector_display_data(s, c)]

\* MetalConnector::send_event: the event is pushed to the connector's queue,
\* which the compositor drains; the model keeps the events of the current step
send_event(s, c, event) == [s EXCEPT !.emitted = Append(@, <<c, event>>)]

\* MetalConnector::schedule_present
schedule_present(s, c) == [s EXCEPT !.conn[c].present_trigger = TRUE]

Event(ty, gen) == [ty |-> ty, generation |-> gen]

(***************************************************************************)
(* Hardware cursor objects (impl HardwareCursor for MetalHardwareCursor).  *)
(* An object is named by its connector and its generation.  The holder     *)
(* keeps the newest object and the one before it.                          *)
(***************************************************************************)
HcOf(s, c, g) == CHOOSE o \in s.hcs[c] : o.generation = g

HcPut(s, c, o) ==
  [s EXCEPT !.hcs[c] = { p \in @ : p.generation # o.generation } \cup {o}]

\* send_hardware_cursor that reuses the generation of the connector
send_hardware_cursor_same_generation(s, c) ==
  IF ~s.conn[c].connect_sent THEN s
  ELSE
    LET generation == s.conn[c].cursor_generation
        cp == s.conn[c].cursor_buffers
        hc == [generation |-> generation,
               cursor_swap_buffer |-> FALSE,
               cursor_enabled_pending |-> s.conn[c].cursor_enabled,
               cursor_x_pending |-> s.conn[c].cursor_x,
               cursor_y_pending |-> s.conn[c].cursor_y,
               cursor_buffers |-> cp,
               have_changes |-> FALSE]
        s2 == IF cp # NoBuffers
                THEN [s EXCEPT !.hcs[c] =
                        { p \in @ : p.generation >= generation - 1 } \cup {hc}]
                ELSE s
    IN  send_event(s2, c, Event("HardwareCursor", IF cp # NoBuffers THEN generation ELSE NONE))

\* MetalConnector::send_hardware_cursor
send_hardware_cursor(s, c) ==
  IF ~s.conn[c].connect_sent THEN s
  ELSE
    LET generation == s.conn[c].cursor_generation + 1
        s1 == [s EXCEPT !.conn[c].cursor_generation = generation]
        cp == s.conn[c].cursor_buffers
        hc == [generation |-> generation,
               cursor_swap_buffer |-> FALSE,
               cursor_enabled_pending |-> s.conn[c].cursor_enabled,
               cursor_x_pending |-> s.conn[c].cursor_x,
               cursor_y_pending |-> s.conn[c].cursor_y,
               cursor_buffers |-> cp,
               have_changes |-> FALSE]
        s2 == IF cp # NoBuffers
                THEN [s1 EXCEPT !.hcs[c] =
                        { p \in @ : p.generation >= generation - 1 } \cup {hc}]
                ELSE s1
    IN  send_event(s2, c, Event("HardwareCursor", IF cp # NoBuffers THEN generation ELSE NONE))

\* MetalHardwareCursor::set_enabled
hc_set_enabled(s, c, g, enabled) ==
  LET o == HcOf(s, c, g)
  IN  HcPut(s, c, [o EXCEPT !.cursor_enabled_pending = enabled,
                            !.have_changes = @ \/ o.cursor_enabled_pending # enabled])

\* MetalHardwareCursor::set_position
hc_set_position(s, c, g, x, y) ==
  LET o == HcOf(s, c, g)
  IN  HcPut(s, c, [o EXCEPT !.cursor_x_pending = x, !.cursor_y_pending = y,
                            !.have_changes = TRUE])

\* MetalHardwareCursor::swap_buffer
hc_swap_buffer(s, c, g) ==
  LET o == HcOf(s, c, g)
  IN  HcPut(s, c, [o EXCEPT !.cursor_swap_buffer = TRUE, !.have_changes = TRUE])

\* the commit without its generation check
hc_commit_any_generation(s, c, g) ==
  LET o == HcOf(s, c, g)
  IN  IF ~o.have_changes THEN s
      ELSE
        LET s1 == HcPut(s, c, [o EXCEPT !.have_changes = FALSE,
                                        !.cursor_swap_buffer = FALSE])
            s2 == [s1 EXCEPT
                     !.conn[c].cursor_enabled = o.cursor_enabled_pending,
                     !.conn[c].cursor_x = o.cursor_x_pending,
                     !.conn[c].cursor_y = o.cursor_y_pending,
                     !.conn[c].cursor_swap_buffer = @ \/ o.cursor_swap_buffer,
                     !.conn[c].cursor_changed = TRUE]
        IN  IF s2.conn[c].can_present THEN schedule_present(s2, c) ELSE s2

\* MetalHardwareCursor::commit
hc_commit(s, c, g) ==
  LET o == HcOf(s, c, g)
  IN  IF o.generation # s.conn[c].cursor_generation THEN s
      ELSE IF ~o.have_changes THEN s
      ELSE
        LET s1 == HcPut(s, c, [o EXCEPT !.have_changes = FALSE,
                                        !.cursor_swap_buffer = FALSE])
            s2 == [s1 EXCEPT
                     !.conn[c].cursor_enabled = o.cursor_enabled_pending,
                     !.conn[c].cursor_x = o.cursor_x_pending,
                     !.conn[c].cursor_y = o.cursor_y_pending,
                     !.conn[c].cursor_swap_buffer = @ \/ o.cursor_swap_buffer,
                     !.conn[c].cursor_changed = TRUE]
        IN  IF s2.conn[c].can_present THEN schedule_present(s2, c) ELSE s2

\* MetalHardwareCursor::get_buffer: the index of the buffer handed out
hc_get_buffer(s, c) == (s.conn[c].cursor_front_buffer + 1) % 2

(***************************************************************************)
(* MetalConnector: damage, present, and the flip-complete handler.         *)
(***************************************************************************)
\* MetalBackend::check_render_context (a reset context ends the process and
\* is not modelled)
check_render_context(s) == s.ctx # NONE

\* RenderBuffer::render_fb: which framebuffer is rendered to
render_fb(buffer) == IF buffer.render_fb THEN "render_fb" ELSE "dev_fb"

\* damage() that only records the damage
damage_unscheduled(s, c) == [s EXCEPT !.conn[c].has_damage = TRUE]

\* Connector::damage
damage(s, c) ==
  LET s1 == [s EXCEPT !.conn[c].has_damage = TRUE]
  IN  IF s1.conn[c].can_present THEN schedule_present(s1, c) ELSE s1

\* the flags of a modeset in place of those of a page flip
PresentFlagsOfModeset ==
  {DRM_MODE_ATOMIC_NONBLOCK, DRM_MODE_PAGE_FLIP_EVENT, DRM_MODE_ATOMIC_ALLOW_MODESET}

PresentFlags == {DRM_MODE_ATOMIC_NONBLOCK, DRM_MODE_PAGE_FLIP_EVENT}

\* the early returns of present() without the one on can_present
present_commits_ignoring_gate(s, c) ==
  LET k == s.conn[c]
  IN  /\ k.crtc # NONE
      /\ (k.has_damage \/ k.cursor_changed)
      /\ s.crtc[k.crtc].active
      /\ k.primary_plane # NONE
      /\ k.buffers # NoBuffers
      /\ (k.has_damage => check_render_context(s))

\* present() gets past its early returns and issues a commit
present_commits(s, c) ==
  LET k == s.conn[c]
  IN  /\ k.crtc # NONE
      /\ (k.has_damage \/ k.cursor_changed) /\ k.can_present
      /\ s.crtc[k.crtc].active
      /\ k.primary_plane # NONE
      /\ k.buffers # NoBuffers
      /\ (k.has_damage => check_render_context(s))

\* the damage part of present(): the buffer rendered to and staged
present_primary(s, c, node) ==
  LET k == s.conn[c]
      buffer == k.next_buffer % 2
      rendered == IF node # <<>>
                    THEN <<[c |-> c, op |-> "render", target |-> render_fb(k.buffers),
                            pair |-> k.buffers.id, buffer |-> buffer]>>
                         \o (IF k.buffers.dev_tex
                               THEN <<[c |-> c, op |-> "copy_texture", target |-> "dev_fb",
                                       pair |-> k.buffers.id, buffer |-> buffer]>>
                               ELSE <<>>)
                    ELSE <<>>
  IN  [s |-> [s EXCEPT !.conn[c].next_buffer = (@ + 1) % 2,
                       !.conn[c].presentation_feedbacks =
                          @ + (IF node # <<>> THEN node[1] ELSE 0),
                       !.renders = @ \o rendered],
       writes |-> << <<"FB_ID", FbId(k.buffers.id, buffer)>> >>]

\* the cursor part of present() that advances the front buffer at every
\* cursor change
present_cursor_always_swapping(s, c) ==
  LET k == s.conn[c]
      front == (k.cursor_front_buffer + 1) % 2
      buffers == k.cursor_buffers
      copied == IF buffers.dev_tex
                  THEN <<[c |-> c, op |-> "copy_texture", target |-> "dev_fb",
                          pair |-> buffers.id, buffer |-> front]>>
                  ELSE <<>>
  IN  [s |-> [s EXCEPT !.conn[c].cursor_swap_buffer = FALSE,
                       !.conn[c].cursor_front_buffer = front,
                       !.renders = @ \o copied],
       writes |-> << <<"FB_ID", FbId(buffers.id, front)>>,
                     <<"CRTC_ID", k.crtc>>,
                     <<"CRTC_X", k.cursor_x>>,
                     <<"CRTC_Y", k.cursor_y>>,
                     <<"CRTC_W", s.inv.cursor_width>>,
                     <<"CRTC_H", s.inv.cursor_height>>,
                     <<"SRC_X", 0>>,
                     <<"SRC_Y", 0>>,
                     <<"SRC_W", s.inv.cursor_width * 65536>>,
                     <<"SRC_H", s.inv.cursor_height * 65536>> >>]

\* the cursor part of present(), cursor enabled
present_cursor(s, c) ==
  LET k == s.conn[c]
      swap_buffer == k.cursor_swap_buffer
      front == IF swap_buffer THEN (k.cursor_front_buffer + 1) % 2
               ELSE k.cursor_front_buffer
      buffers == k.cursor_buffers
      copied == IF swap_buffer /\ buffers.dev_tex
                  THEN <<[c |-> c, op |-> "copy_texture", target |-> "dev_fb",
                          pair |-> buffers.id, buffer |-> front]>>
                  ELSE <<>>
  IN  [s |-> [s EXCEPT !.conn[c].cursor_swap_buffer = FALSE,
                       !.conn[c].cursor_front_buffer = front,
                       !.renders = @ \o copied],
       writes |-> << <<"FB_ID", FbId(buffers.id, front)>>,
                     <<"CRTC_ID", k.crtc>>,
                     <<"CRTC_X", k.cursor_x>>,
                     <<"CRTC_Y", k.cursor_y>>,
                     <<"CRTC_W", s.inv.cursor_width>>,
                     <<"CRTC_H", s.inv.cursor_height>>,
                     <<"SRC_X", 0>>,
                     <<"SRC_Y", 0>>,
                     <<"SRC_W", s.inv.cursor_width * 65536>>,
                     <<"SRC_H", s.inv.cursor_height * 65536>> >>]

\* the state and the batch of present() when it reaches its commit
present_changes(s, c, node) ==
  LET k == s.conn[c]
      pr == IF k.has_damage THEN present_primary(s, c, node)
            ELSE [s |-> s, writes |-> <<>>]
      ch1 == change_object(EmptyChange, k.primary_plane, pr.writes)
      cu == IF k.cursor_changed /\ k.cursor_plane # NONE
              THEN IF k.cursor_enabled
                     THEN present_cursor(pr.s, c)
                     ELSE [s |-> pr.s, writes |-> << <<"FB_ID", 0>>, <<"CRTC_ID", 0>> >>]
              ELSE [s |-> pr.s, writes |-> <<>>]
      ch2 == change_object(ch1, k.cursor_plane, cu.writes)
  IN  [s |-> cu.s, changes |-> ch2]

\* present() that also clears the flags when its commit fails
present_clearing_on_failure(s, c, node, res) ==
  IF ~present_commits(s, c) THEN s
  ELSE
    LET pc == present_changes(s, c, node)
        s1 == Commit(pc.s, c, PresentFlags, pc.changes, res)
    IN  [s1 EXCEPT !.conn[c].can_present = FALSE,
                   !.conn[c].has_damage = FALSE,
                   !.conn[c].cursor_changed = FALSE]

\* MetalConnector::present; node: <<>> when the connector has no output node,
\* else <<n>>, n being the number of presentation feedbacks the render pass
\* collects from the node's surfaces; res: the kernel's answer to the commit
present(s, c, node, res) ==
  IF ~present_commits(s, c) THEN s
  ELSE
    Only({ IF res # "ok" THEN s1
           ELSE [s1 EXCEPT !.conn[c].can_present = FALSE,
                           !.conn[c].has_damage = FALSE,
                           !.conn[c].cursor_changed = FALSE] :
           s1 \in { Commit(pc.s, c, PresentFlags, pc.changes, res) :
                    pc \in {present_changes(s, c, node)} } })

\* the kernel's possible answers to the commit present() would issue
present_results(s, c, node) ==
  IF ~present_commits(s, c) THEN {"none"}
  ELSE Only({ CommitResults(pc.s, PresentFlags, pc.changes) :
              pc \in {present_changes(s, c, node)} })

\* the flip handler that leaves the presentation feedbacks pending
handle_drm_flip_event_keeping_feedbacks(s, crtc_id, global) ==
  IF crtc_id \notin CrtcIds(s.inv) THEN s
  ELSE
    LET connector == s.crtc[crtc_id].connector
    IN  IF connector = NONE THEN s
        ELSE
          LET s1 == [s EXCEPT !.conn[connector].can_present = TRUE]
          IN  IF s1.conn[connector].has_damage \/ s1.conn[connector].cursor_changed
                THEN schedule_present(s1, connector) ELSE s1

\* the flip handler that does not schedule the present of pending damage
handle_drm_flip_event_unscheduled(s, crtc_id, global) ==
  IF crtc_id \notin CrtcIds(s.inv) THEN s
  ELSE
    LET connector == s.crtc[crtc_id].connector
    IN  IF connector = NONE THEN s
        ELSE
          [s EXCEPT
             !.conn[connector].can_present = TRUE,
             !.feedbacks = @ \o [n \in 1..s.conn[connector].presentation_feedbacks |->
                                   [c |-> connector,
                                    sent |-> IF global THEN "presented"
                                             ELSE "discarded"]],
             !.conn[connector].presentation_feedbacks = 0]

\* MetalBackend::handle_drm_flip_event; global: the output of the connector
\* exists.  The pending presentation feedbacks are drained: each is sent
\* presented, or discarded when there is no output.
handle_drm_flip_event(s, crtc_id, global) ==
  IF crtc_id \notin CrtcIds(s.inv) THEN s
  ELSE
    LET connector == s.crtc[crtc_id].connector
    IN  IF connector = NONE THEN s
        ELSE
          LET s1 == [s EXCEPT !.conn[connector].can_present = TRUE]
              s2 == IF s1.conn[connector].has_damage \/ s1.conn[connector].cursor_changed
                      THEN schedule_present(s1, connector) ELSE s1
          IN  [s2 EXCEPT
                 !.feedbacks = @ \o [n \in 1..s.conn[connector].presentation_feedbacks |->
                                       [c |-> connector,
                                        sent |-> IF global THEN "presented"
                                                 ELSE "discarded"]],
                 !.conn[connector].presentation_feedbacks = 0]

(***************************************************************************)
(* Reconfiguration: the pieces of init_drm_device.  Loops over hash maps   *)
(* take the iteration order as an input where the order decides something  *)
(* (which crtc, which plane, which connector first); loops that only       *)
(* stage writes run in ascending id order.                                 *)
(***************************************************************************)
\* the first entry of order ord that satisfies P, NONE if there is none
FirstIn(ord, P(_)) ==
  IF \E i \in 1..Len(ord) : P(ord[i])
    THEN ord[CHOOSE i \in 1..Len(ord) : P(ord[i]) /\ \A j \in 1..(i - 1) : ~P(ord[j])]
    ELSE NONE

EmptyPreserve == [connectors |-> {}, crtcs |-> {}, planes |-> {}]

\* MetalBackend::update_device_properties
update_device_properties(s) ==
  [s EXCEPT
     !.conn = [c \in DOMAIN @ |->
                 IF c \in s.connectors
                   THEN [@[c] EXCEPT !.display.crtc_id = s.kern.conn_crtc[c]]
                   ELSE @[c]],
     !.crtc = [x \in DOMAIN @ |->
                 [@[x] EXCEPT !.active = s.kern.crtc_active[x],
                              !.mode_id = s.kern.crtc_mode[x]]],
     !.plane = [p \in DOMAIN @ |-> [@[p] EXCEPT !.crtc_id = s.kern.plane_crtc[p]]]]

RECURSIVE update_device_properties_failing(_, _)
\* MetalBackend::update_device_properties that fails: the connectors are
\* visited in the order cord, and the properties of the first one that the
\* kernel no longer has cannot be read; those before it have been updated
update_device_properties_failing(s, cord) ==
  IF cord = <<>> \/ Head(cord) \notin s.kern.connectors THEN s
  ELSE update_device_properties_failing(
         [s EXCEPT !.conn[Head(cord)].display.crtc_id = s.kern.conn_crtc[Head(cord)]],
         Tail(cord))

\* the checks of validate_preserve on one connector of the preserve set
preserve_valid(s, c) ==
  LET k == s.conn[c]
      dd == k.display
  IN  \/ k.crtc = NONE
      \/ /\ dd.crtc_id = k.crtc
         /\ dd.mode # <<>> =>
              /\ s.crtc[k.crtc].mode_id # NONE
              /\ getblob(s.crtc[k.crtc].mode_id) # <<>>
              /\ modes_equal(dd.mode[1], getblob(s.crtc[k.crtc].mode_id)[1])
         /\ s.crtc[k.crtc].active
         /\ k.primary_plane # NONE => s.plane[k.primary_plane].crtc_id = k.crtc
         /\ k.cursor_plane # NONE =>
              ~(s.plane[k.cursor_plane].crtc_id # NONE
                /\ s.plane[k.cursor_plane].crtc_id # k.crtc)

\* what validate_preserve reads of connector c: the connector's bindings and
\* the values that the property reads left in its display data, its crtc and
\* its planes
PreserveFacts(s, c) ==
  LET k == s.conn[c]
  IN  [exists |-> c \in s.connectors,
       crtc |-> k.crtc,
       crtc_id |-> k.display.crtc_id,
       active |-> IF k.crtc = NONE THEN FALSE ELSE s.crtc[k.crtc].active,
       mode |-> k.display.mode,
       current_mode |-> IF k.crtc = NONE THEN <<>> ELSE getblob(s.crtc[k.crtc].mode_id),
       primary_plane |-> k.primary_plane,
       primary_crtc_id |-> IF k.primary_plane = NONE THEN NONE
                           ELSE s.plane[k.primary_plane].crtc_id,
       cursor_plane |-> k.cursor_plane,
       cursor_crtc_id |-> IF k.cursor_plane = NONE THEN NONE
                          ELSE s.plane[k.cursor_plane].crtc_id]

\* MetalBackend::validate_preserve
validate_preserve(s, preserve) ==
  LET keep == { c \in preserve.connectors : c \in s.connectors /\ preserve_valid(s, c) }
  IN  [connectors |-> keep,
       planes |-> (preserve.planes
                   \cup { s.conn[c].primary_plane : c \in keep }
                   \cup { s.conn[c].cursor_plane : c \in keep }) \ {NONE},
       crtcs |-> (preserve.crtcs \cup { s.conn[c].crtc : c \in keep }) \ {NONE}]

\* the loop body of can_use_current_drm_mode for connector c;
\* u: [s, used_crtcs, used_planes, ok]
can_use_step(u, c, pord) ==
  LET s == u.s
      dd == s.conn[c].display
      crtc_id == dd.crtc_id
  IN  IF ~s.conn[c].enabled \/ dd.connection # "Connected"
        THEN IF crtc_id # NONE THEN [u EXCEPT !.ok = FALSE] ELSE u
      ELSE IF crtc_id = NONE THEN [u EXCEPT !.ok = FALSE]
      ELSE
        LET s1 == [s EXCEPT !.conn[c].crtc = crtc_id, !.crtc[crtc_id].connector = c]
            u1 == [u EXCEPT !.s = s1, !.used_crtcs = @ \cup {crtc_id}]
            cur == getblob(s.crtc[crtc_id].mode_id)
            pp == FirstIn(pord, LAMBDA p : /\ p \in possible_planes(s.inv, crtc_id)
                                           /\ s.inv.ty[p] = "Primary"
                                           /\ p \notin u.used_planes)
        IN  IF ~s.crtc[crtc_id].active THEN [u1 EXCEPT !.ok = FALSE]
            ELSE IF dd.mode = <<>> THEN [u1 EXCEPT !.ok = FALSE]
            ELSE IF cur = <<>> THEN [u1 EXCEPT !.ok = FALSE]
            ELSE IF ~modes_equal(dd.mode[1], cur[1]) THEN [u1 EXCEPT !.ok = FALSE]
            ELSE IF pp = NONE THEN [u1 EXCEPT !.ok = FALSE]
            ELSE [u1 EXCEPT !.used_planes = @ \cup {pp}]

RECURSIVE can_use_loop(_, _, _)
\* the loop over the connectors; it returns at the first failed check
can_use_loop(u, cord, pord) ==
  IF cord = <<>> \/ ~u.ok THEN u
  ELSE Only({ can_use_loop(u1, Tail(cord), pord) :
                u1 \in {can_use_step(u, Head(cord), pord)} })

RECURSIVE deactivate_crtcs(_, _, _)
\* the second loop of can_use_current_drm_mode over the crtcs xs;
\* w: [s, changes, flags]
deactivate_crtcs(w, used_crtcs, xs) ==
  IF xs = <<>> THEN w
  ELSE
    LET x == Head(xs)
        off == x \notin used_crtcs /\ w.s.crtc[x].active
        w1 == [s |-> IF x \notin used_crtcs
                       THEN [w.s EXCEPT !.crtc[x].active = FALSE] ELSE w.s,
               flags |-> IF off THEN w.flags \cup {DRM_MODE_ATOMIC_ALLOW_MODESET}
                         ELSE w.flags,
               changes |-> change_object(w.changes, x,
                             (IF off THEN << <<"ACTIVE", 0>> >> ELSE <<>>)
                             \o << <<"OUT_FENCE_PTR", 0>> >>)]
    IN  Only({ deactivate_crtcs(w2, used_crtcs, Tail(xs)) : w2 \in {w1} })

\* can_use_current_drm_mode whose commit always carries ALLOW_MODESET
can_use_current_drm_mode_allowing(s, cord, pord, r1) ==
  LET u == can_use_loop([s |-> s, used_crtcs |-> {}, used_planes |-> {}, ok |-> TRUE],
                        cord, pord)
  IN  IF ~u.ok THEN [s |-> u.s, ok |-> FALSE]
      ELSE
        LET w == deactivate_crtcs([s |-> u.s, changes |-> EmptyChange, flags |-> {}],
                                  u.used_crtcs, s.inv.crtcs)
            s1 == Commit(w.s, NONE, {DRM_MODE_ATOMIC_ALLOW_MODESET}, w.changes, r1)
        IN  [s |-> s1, ok |-> r1 = "ok"]

\* MetalBackend::can_use_current_drm_mode; r1: the kernel's answer to the
\* commit that deactivates the unused crtcs.  Yields [s, ok].
can_use_current_drm_mode(s, cord, pord, r1) ==
  LET u == can_use_loop([s |-> s, used_crtcs |-> {}, used_planes |-> {}, ok |-> TRUE],
                        cord, pord)
  IN  IF ~u.ok THEN [s |-> u.s, ok |-> FALSE]
      ELSE
        LET w == deactivate_crtcs([s |-> u.s, changes |-> EmptyChange, flags |-> {}],
                                  u.used_crtcs, s.inv.crtcs)
            s1 == Commit(w.s, NONE, w.flags, w.changes, r1)
        IN  [s |-> s1, ok |-> r1 = "ok"]

\* w: [s, changes, ...], the state and the batch being built
RECURSIVE reset_connectors(_, _, _)
reset_connectors(w, preserve, cs) ==
  IF cs = <<>> THEN w
  ELSE
    LET c == Head(cs)
        w1 == IF c \in preserve.connectors THEN w
              ELSE [w EXCEPT
                      !.s.conn[c].primary_plane = NONE,
                      !.s.conn[c].cursor_plane = NONE,
                      !.s.conn[c].cursor_enabled = FALSE,
                      !.s.conn[c].crtc = NONE,
                      !.s.conn[c].display.crtc_id = NONE,
                      !.changes = change_object(@, c, << <<"CRTC_ID", 0>> >>),
                      !.reset = @ \cup {c}]
    IN  Only({ reset_connectors(w2, preserve, Tail(cs)) : w2 \in {w1} })

RECURSIVE reset_crtcs(_, _, _)
reset_crtcs(w, preserve, xs) ==
  IF xs = <<>> THEN w
  ELSE
    LET x == Head(xs)
        w1 == IF x \in preserve.crtcs THEN w
              ELSE [w EXCEPT
                      !.s.crtc[x].connector = NONE,
                      !.s.crtc[x].active = FALSE,
                      !.s.crtc[x].mode_id = NONE,
                      !.changes = change_object(@, x,
                          << <<"ACTIVE", 0>>, <<"MODE_ID", 0>>, <<"OUT_FENCE_PTR", 0>> >>),
                      !.reset = @ \cup {x}]
    IN  Only({ reset_crtcs(w2, preserve, Tail(xs)) : w2 \in {w1} })

\* MetalBackend::reset_connectors_and_crtcs
reset_connectors_and_crtcs(w, preserve) ==
  reset_crtcs(reset_connectors(w, preserve, SetToSeq(w.s.connectors)),
              preserve, w.s.inv.crtcs)

RECURSIVE reset_planes_loop(_, _, _)
reset_planes_loop(w, preserve, ps) ==
  IF ps = <<>> THEN w
  ELSE
    LET p == Head(ps)
        w1 == IF p \in preserve.planes THEN w
              ELSE [w EXCEPT
                      !.s.plane[p].crtc_id = NONE,
                      !.s.plane[p].assigned = FALSE,
                      !.changes = change_object(@, p,
                          << <<"CRTC_ID", 0>>, <<"FB_ID", 0>>, <<"IN_FENCE_FD", -1>> >>),
                      !.reset = @ \cup {p}]
    IN  Only({ reset_planes_loop(w2, preserve, Tail(ps)) : w2 \in {w1} })

\* MetalBackend::reset_planes
reset_planes(w, preserve) == reset_planes_loop(w, preserve, SetToSeq(w.s.inv.planes))

\* assign_connector_crtc that takes the first free crtc of the device
assign_connector_crtc_any(w, c, xord) ==
  LET s == w.s
      dd == s.conn[c].display
      x == FirstIn(xord, LAMBDA y : s.crtc[y].connector = NONE)
  IN  IF ~s.conn[c].enabled \/ dd.connection # "Connected" THEN w
      ELSE IF x = NONE THEN [w EXCEPT !.errors = Append(@, <<c, "NoCrtcForConnector">>)]
      ELSE IF dd.mode = <<>>
        THEN [w EXCEPT !.errors = Append(@, <<c, "NoModeForConnector">>)]
      ELSE
        LET mode_blob == create_blob(dd.mode[1])
            ch1 == change_object(w.changes, c, << <<"CRTC_ID", x>> >>)
            ch2 == change_object(ch1, x, << <<"ACTIVE", 1>>, <<"MODE_ID", mode_blob>> >>)
        IN  [w EXCEPT
               !.changes = ch2,
               !.s.conn[c].crtc = x,
               !.s.conn[c].display.crtc_id = x,
               !.s.crtc[x].connector = c,
               !.s.crtc[x].active = TRUE,
               !.s.crtc[x].mode_id = mode_blob,
               !.s.crtc[x].mode_blob = mode_blob]

\* MetalBackend::assign_connector_crtc; xord: the iteration order of dd.crtcs.
\* An error (no crtc, no mode) leaves everything as it was.
assign_connector_crtc(w, c, xord) ==
  LET s == w.s
      dd == s.conn[c].display
      x == FirstIn(xord, LAMBDA y : y \in dd.crtcs /\ s.crtc[y].connector = NONE)
  IN  IF ~s.conn[c].enabled \/ dd.connection # "Connected" THEN w
      ELSE IF x = NONE THEN [w EXCEPT !.errors = Append(@, <<c, "NoCrtcForConnector">>)]
      ELSE IF dd.mode = <<>>
        THEN [w EXCEPT !.errors = Append(@, <<c, "NoModeForConnector">>)]
      ELSE
        LET mode_blob == create_blob(dd.mode[1])
            ch1 == change_object(w.changes, c, << <<"CRTC_ID", x>> >>)
            ch2 == change_object(ch1, x, << <<"ACTIVE", 1>>, <<"MODE_ID", mode_blob>> >>)
        IN  [w EXCEPT
               !.changes = ch2,
               !.s.conn[c].crtc = x,
               !.s.conn[c].display.crtc_id = x,
               !.s.crtc[x].connector = c,
               !.s.crtc[x].active = TRUE,
               !.s.crtc[x].mode_id = mode_blob,
               !.s.crtc[x].mode_blob = mode_blob]

\* the buffer pairs some object still holds
LivePairs(w) ==
  ({ w.s.conn[c].buffers.id : c \in DOMAIN w.s.conn }
   \cup { w.s.conn[c].cursor_buffers.id : c \in DOMAIN w.s.conn }
   \cup { o.cursor_buffers.id : o \in UNION { w.s.hcs[c] : c \in DOMAIN w.s.hcs } }
   \cup w.old_buffers) \ {NONE}

\* the number of the next pair allocated, given the live ones
NewPair(live) == CHOOSE n \in 1..(Cardinality(live) + 1) :
                   n \notin live /\ \A m \in 1..(n - 1) : m \in live

\* buffer pairs that are never given a bridge
create_scanout_buffers_local(n, render_ctx) ==
  [id |-> n, dev_tex |-> FALSE, render_fb |-> FALSE]

\* MetalBackend::create_scanout_buffers for a device that is ThisDev: both
\* buffers of the pair have a bridge exactly when the render device differs
create_scanout_buffers(n, render_ctx) ==
  [id |-> n, dev_tex |-> ThisDev # render_ctx, render_fb |-> ThisDev # render_ctx]

\* assign_connector_planes that marks the cursor plane assigned before it
\* allocates the cursor buffers
assign_connector_planes_marking(w, c, pord, af, render_ctx) ==
  LET s == w.s
      k == s.conn[c]
      dd == k.display
      x == k.crtc
      primary_plane ==
        FirstIn(pord, LAMBDA p : /\ p \in possible_planes(s.inv, x)
                                 /\ s.inv.ty[p] = "Primary"
                                 /\ ~s.plane[p].assigned
                                 /\ XRGB8888 \in s.inv.formats[p])
      found_cursor ==
        FirstIn(pord, LAMBDA p : /\ p \in possible_planes(s.inv, x)
                                 /\ s.inv.ty[p] = "Cursor"
                                 /\ ~s.plane[p].assigned
                                 /\ ARGB8888 \in s.inv.formats[p])
      n1 == NewPair(LivePairs(w))
      n2 == NewPair(LivePairs(w) \cup {n1})
      buffers == create_scanout_buffers(n1, render_ctx)
      cursor_plane == IF af = "cursor" THEN NONE ELSE found_cursor
      cursor_buffers == IF cursor_plane # NONE
                          THEN create_scanout_buffers(n2, render_ctx) ELSE NoBuffers
  IN  IF x = NONE THEN w
      ELSE IF dd.mode = <<>> THEN w
      ELSE IF primary_plane = NONE
        THEN [w EXCEPT !.errors = Append(@, <<c, "NoPrimaryPlaneForConnector">>)]
      ELSE IF af = "primary"
        THEN [w EXCEPT !.errors = Append(@, <<c, "ScanoutBuffer">>)]
      ELSE
        LET mode == dd.mode[1]
            ch1 == change_object(w.changes, primary_plane,
                     << <<"FB_ID", FbId(buffers.id, 0)>>,
                        <<"CRTC_ID", x>>,
                        <<"CRTC_X", 0>>,
                        <<"CRTC_Y", 0>>,
                        <<"CRTC_W", mode.hdisplay>>,
                        <<"CRTC_H", mode.vdisplay>>,
                        <<"SRC_X", 0>>,
                        <<"SRC_Y", 0>>,
                        <<"SRC_W", mode.hdisplay * 65536>>,
                        <<"SRC_H", mode.vdisplay * 65536>> >>)
            w1 == [w EXCEPT
                     !.changes = ch1,
                     !.s.plane[primary_plane].assigned = TRUE,
                     !.s.plane[primary_plane].crtc_id = x,
                     !.s.conn[c].buffers = buffers,
                     !.s.conn[c].primary_plane = primary_plane,
                     !.s.conn[c].cursor_buffers = cursor_buffers,
                     !.s.conn[c].cursor_plane = cursor_plane,
                     !.s.conn[c].cursor_enabled = FALSE,
                     !.old_buffers = @ \cup ({k.buffers.id, k.cursor_buffers.id} \ {NONE}),
                     !.warnings = IF found_cursor # NONE /\ af = "cursor"
                                    THEN Append(@, <<c, "CursorBuffers">>) ELSE @]
        IN  IF found_cursor # NONE
              THEN [w1 EXCEPT !.s.plane[found_cursor].assigned = TRUE]
              ELSE w1

\* MetalBackend::assign_connector_planes; pord: the iteration order of the
\* crtc's possible_planes; af: which allocation fails for this connector
\* ("none", "primary", "cursor")
assign_connector_planes(w, c, pord, af, render_ctx) ==
  LET s == w.s
      k == s.conn[c]
      dd == k.display
      x == k.crtc
      primary_plane ==
        FirstIn(pord, LAMBDA p : /\ p \in possible_planes(s.inv, x)
                                 /\ s.inv.ty[p] = "Primary"
                                 /\ ~s.plane[p].assigned
                                 /\ XRGB8888 \in s.inv.formats[p])
      found_cursor ==
        FirstIn(pord, LAMBDA p : /\ p \in possible_planes(s.inv, x)
                                 /\ s.inv.ty[p] = "Cursor"
                                 /\ ~s.plane[p].assigned
                                 /\ ARGB8888 \in s.inv.formats[p])
      n1 == NewPair(LivePairs(w))
      n2 == NewPair(LivePairs(w) \cup {n1})
      buffers == create_scanout_buffers(n1, render_ctx)
      cursor_plane == IF af = "cursor" THEN NONE ELSE found_cursor
      cursor_buffers == IF cursor_plane # NONE
                          THEN create_scanout_buffers(n2, render_ctx) ELSE NoBuffers
  IN  IF x = NONE THEN w
      ELSE IF dd.mode = <<>> THEN w
      ELSE IF primary_plane = NONE
        THEN [w EXCEPT !.errors = Append(@, <<c, "NoPrimaryPlaneForConnector">>)]
      ELSE IF af = "primary"
        THEN [w EXCEPT !.errors = Append(@, <<c, "ScanoutBuffer">>)]
      ELSE
        LET mode == dd.mode[1]
            ch1 == change_object(w.changes, primary_plane,
                     << <<"FB_ID", FbId(buffers.id, 0)>>,
                        <<"CRTC_ID", x>>,
                        <<"CRTC_X", 0>>,
                        <<"CRTC_Y", 0>>,
                        <<"CRTC_W", mode.hdisplay>>,
                        <<"CRTC_H", mode.vdisplay>>,
                        <<"SRC_X", 0>>,
                        <<"SRC_Y", 0>>,
                        <<"SRC_W", mode.hdisplay * 65536>>,
                        <<"SRC_H", mode.vdisplay * 65536>> >>)
            w1 == [w EXCEPT
                     !.changes = ch1,
                     !.s.plane[primary_plane].assigned = TRUE,
                     !.s.plane[primary_plane].crtc_id = x,
                     !.s.conn[c].buffers = buffers,
                     !.s.conn[c].primary_plane = primary_plane,
                     !.s.conn[c].cursor_buffers = cursor_buffers,
                     !.s.conn[c].cursor_plane = cursor_plane,
                     !.s.conn[c].cursor_enabled = FALSE,
                     !.old_buffers = @ \cup ({k.buffers.id, k.cursor_buffers.id} \ {NONE}),
                     !.warnings = IF found_cursor # NONE /\ af = "cursor"
                                    THEN Append(@, <<c, "CursorBuffers">>) ELSE @]
        IN  IF cursor_plane # NONE
              THEN [w1 EXCEPT !.s.plane[cursor_plane].assigned = TRUE]
              ELSE w1

RECURSIVE assign_crtcs_loop(_, _, _, _)
assign_crtcs_loop(w, preserve, cord, xord) ==
  IF cord = <<>> THEN w
  ELSE Only({ assign_crtcs_loop(w1, preserve, Tail(cord), xord) :
                w1 \in {IF Head(cord) \notin preserve.connectors
                          THEN assign_connector_crtc(w, Head(cord), xord) ELSE w} })

RECURSIVE assign_planes_loop(_, _, _, _, _, _)
assign_planes_loop(w, preserve, cord, pord, af, render_ctx) ==
  IF cord = <<>> THEN w
  ELSE Only({ assign_planes_loop(w1, preserve, Tail(cord), pord, af, render_ctx) :
                w1 \in {IF Head(cord) \notin preserve.connectors
                          THEN assign_connector_planes(w, Head(cord), pord,
                                                       af[Head(cord)], render_ctx)
                          ELSE w} })

RECURSIVE send_hardware_cursors(_, _, _)
send_hardware_cursors(s, preserve, cs) ==
  IF cs = <<>> THEN s
  ELSE Only({ send_hardware_cursors(s1, preserve, Tail(cs)) :
                s1 \in {IF Head(cs) \in preserve.connectors
                          THEN s ELSE send_hardware_cursor(s, Head(cs))} })

\* the inputs of one pass: in.up: the answer to the property reads of
\* update_device_properties; in.cord, in.xord, in.pord: the iteration orders of
\* the connectors, of a connector's crtcs and of a crtc's planes; in.af: the
\* buffer allocations that fail; in.r1, in.r2: the kernel's answers to the
\* crtc-deactivation commit and to the main commit.
\* MetalBackend::init_drm_device.  Yields [s, ok, preserve, reset, errors],
\* warnings: the connectors whose cursor buffers could not be allocated,
\* and seen: what validate_preserve read of the connectors that it kept.
init_drm_device(s, preserve0, in) ==
  IF s.ctx = NONE
    THEN [s |-> s, ok |-> TRUE, preserve |-> preserve0, reset |-> {}, errors |-> <<>>,
          warnings |-> <<>>, fast |-> FALSE, ran |-> FALSE, seen |-> <<>>]
  ELSE
    Only({ Only({ Only({ Only({
      [s |-> IF in.r2 = "ok"
               THEN send_hardware_cursors(s4, preserve, SetToSeq(s4.connectors))
               ELSE s4,
       ok |-> in.r2 = "ok", preserve |-> preserve, reset |-> w3.reset,
       errors |-> w3.errors, warnings |-> w3.warnings, fast |-> cu.ok, ran |-> TRUE,
       seen |-> [c \in preserve.connectors |-> PreserveFacts(s, c)]] :
      \* the commit, with ALLOW_MODESET unless the current mode is used
      s4 \in {Commit(w3.s, NONE,
                     IF cu.ok THEN {} ELSE {DRM_MODE_ATOMIC_ALLOW_MODESET},
                     w3.changes, in.r2)} }) :
      \* reset_connectors_and_crtcs and the crtc loop (unless the current mode
      \* is used), reset_planes, the plane loop
      w3 \in {Only({ Only({ Only({
                assign_planes_loop(
                  w2, preserve, SelectSeq(in.cord, LAMBDA c : c \in s.connectors),
                  in.pord, in.af, s.ctx) :
                w2 \in {reset_planes(w1, preserve)} }) :
                w1 \in {IF cu.ok THEN w0
                        ELSE assign_crtcs_loop(
                               reset_connectors_and_crtcs(w0, preserve), preserve,
                               SelectSeq(in.cord, LAMBDA c : c \in s.connectors),
                               in.xord)} }) :
                w0 \in {[s |-> cu.s, changes |-> EmptyChange, reset |-> {},
                         errors |-> <<>>, warnings |-> <<>>, old_buffers |-> {}]} })} }) :
      cu \in {can_use_current_drm_mode(
                s, SelectSeq(in.cord, LAMBDA c : c \in s.connectors), in.pord, in.r1)} }) :
      preserve \in {validate_preserve(s, preserve0)} })

\* MetalConnector::connected
connected(s, c) ==
  /\ s.conn[c].enabled
  /\ s.conn[c].display.connection = "Connected"
  /\ s.conn[c].primary_plane # NONE

\* send_connected without the assignment to connect_sent
send_connected_unmarked(s, c) ==
  send_hardware_cursor(send_event(s, c, Event("Connected", NONE)), c)

\* MetalBackend::send_connected
send_connected(s, c) ==
  LET s1 == send_event(s, c, Event("Connected", NONE))
  IN  send_hardware_cursor([s1 EXCEPT !.conn[c].connect_sent = TRUE], c)

\* start_connector that does not arm the damage flag
start_connector_undamaged(s, c) ==
  LET s1 == IF ~s.conn[c].connect_sent THEN send_connected(s, c) ELSE s
  IN  schedule_present([s1 EXCEPT !.conn[c].cursor_changed = TRUE], c)

\* MetalBackend::start_connector
start_connector(s, c) ==
  LET s1 == IF ~s.conn[c].connect_sent THEN send_connected(s, c) ELSE s
  IN  schedule_present([s1 EXCEPT !.conn[c].has_damage = TRUE,
                                  !.conn[c].cursor_changed = TRUE], c)

\* what a pass did, kept in `last`
PassRecord(by, candidates, r) ==
  [by |-> by, candidates |-> candidates, preserve |-> r.preserve, reset |-> r.reset,
   errors |-> r.errors, warnings |-> r.warnings, fast |-> r.fast, ok |-> r.ok,
   ran |-> r.ran, seen |-> r.seen]

(***************************************************************************)
(* handle_drm_change_ and its callers.                                     *)
(***************************************************************************)
RECURSIVE remove_connectors(_, _)
\* the loop over removed_connectors
remove_connectors(s, cs) ==
  IF cs = <<>> THEN s
  ELSE
    LET c == Head(cs)
        s1 == [s EXCEPT !.futures = @ \ {c}, !.connectors = @ \ {c}]
        s2 == IF s.conn[c].connect_sent
                THEN send_event(s1, c, Event("Disconnected", NONE)) ELSE s1
    IN  remove_connectors(send_event(s2, c, Event("Removed", NONE)), Tail(cs))

\* the refetch loop body that does not look at enabled
refetch_display_data_ignoring_enabled(v, c, preserve_any) ==
  LET s == v.s
      old == create_connector_display_data(s, c)
      dd == s.conn[c].display
      s1 == [s EXCEPT !.conn[c].display = old]
  IN  IF ~s.conn[c].connect_sent THEN [v EXCEPT !.s = s1]
      ELSE IF \/ old.connection # "Connected"
              \/ ~is_same_monitor(old, dd)
        THEN [v EXCEPT !.s = [send_event(s1, c, Event("Disconnected", NONE))
                                EXCEPT !.conn[c].connect_sent = FALSE]]
      ELSE IF preserve_any
        THEN [v EXCEPT !.s = s1, !.preserve.connectors = @ \cup {c}]
      ELSE [v EXCEPT !.s = s1]

\* the body of the loop that refetches the display data of connector c
\* (old: the new data, after the swap; dd: the previous data); v: [s, preserve]
refetch_display_data(v, c, preserve_any) ==
  LET s == v.s
      old == create_connector_display_data(s, c)
      dd == s.conn[c].display
      s1 == [s EXCEPT !.conn[c].display = old]
  IN  IF ~s.conn[c].connect_sent THEN [v EXCEPT !.s = s1]
      ELSE IF \/ ~s.conn[c].enabled
              \/ old.connection # "Connected"
              \/ ~is_same_monitor(old, dd)
        THEN [v EXCEPT !.s = [send_event(s1, c, Event("Disconnected", NONE))
                                EXCEPT !.conn[c].connect_sent = FALSE]]
      ELSE IF preserve_any
        THEN [v EXCEPT !.s = s1, !.preserve.connectors = @ \cup {c}]
      ELSE [v EXCEPT !.s = s1]

RECURSIVE refetch_loop(_, _, _)
refetch_loop(v, cs, preserve_any) ==
  IF cs = <<>> THEN v
  ELSE Only({ refetch_loop(v1, Tail(cs), preserve_any) :
                v1 \in {refetch_display_data(v, Head(cs), preserve_any)} })

RECURSIVE add_connectors(_, _)
\* the loop over new_connectors
add_connectors(s, cs) ==
  IF cs = <<>> THEN s
  ELSE
    LET c == Head(cs)
    IN  add_connectors(
          [s EXCEPT !.conn[c] = create_connector(s, c),
                    !.backend_events = Append(@, <<"NewConnector", c>>),
                    !.futures = @ \cup {c},
                    !.connectors = @ \cup {c}],
          Tail(cs))

RECURSIVE start_connectors(_, _, _, _)
\* the last loop of handle_drm_change_
start_connectors(s, preserve, cs, set_can_present) ==
  IF cs = <<>> THEN s
  ELSE
    LET c == Head(cs)
        s1 == IF set_can_present /\ c \notin preserve.connectors
                THEN [s EXCEPT !.conn[c].can_present = TRUE] ELSE s
    IN  Only({ start_connectors(t, preserve, Tail(cs), set_can_present) :
               t \in {IF connected(s, c) THEN start_connector(s1, c) ELSE s} })

\* MetalBackend::handle_drm_change_.  Yields [s, ok].
handle_drm_change_(s, preserve_any, in) ==
  IF in.up # "ok"
    THEN [s |-> update_device_properties_failing(
                  s, SelectSeq(in.cord, LAMBDA c : c \in s.connectors)),
          ok |-> FALSE]
  ELSE
  Only({ Only({ Only({ Only({ Only({
    IF ~r.ok THEN [s |-> s4, ok |-> FALSE]
    ELSE [s |-> [start_connectors(s4, r.preserve, SetToSeq(s4.connectors), TRUE)
                   EXCEPT !.unprocessed_change = FALSE],
          ok |-> TRUE] :
    s4 \in {[r.s EXCEPT !.pass = Append(@, PassRecord("handle_drm_change_",
                                                      v.preserve.connectors, r))]} }) :
    \* the new connectors are created, then init_drm_device
    r \in {init_drm_device(
             add_connectors(v.s, SetToSeq(s1.kern.connectors \ s1.connectors)),
             v.preserve, in)} }) :
    \* the display data is refetched
    v \in {refetch_loop([s |-> s2, preserve |-> EmptyPreserve],
                        SetToSeq(s2.connectors), preserve_any)} }) :
    \* the removed connectors
    s2 \in {remove_connectors(s1, SetToSeq(s1.connectors \ s1.kern.connectors))} }) :
    s1 \in {update_device_properties(s)} })

\* handle_drm_change that only logs the error of the pass
handle_drm_change_forgetting(s, in) == handle_drm_change_(s, TRUE, in).s

\* MetalBackend::handle_drm_change, for the device of the model
handle_drm_change(s, in) ==
  Only({ IF r.ok THEN r.s ELSE [r.s EXCEPT !.unprocessed_change = TRUE] :
         r \in {handle_drm_change_(s, TRUE, in)} })

\* Connector::set_enabled
set_enabled(s, c, enabled, in) ==
  IF s.conn[c].enabled = enabled THEN s
  ELSE
    LET s1 == [s EXCEPT !.conn[c].enabled = enabled]
    IN  IF s1.conn[c].display.connection = "Connected"
          THEN handle_drm_change(s1, in)
          ELSE s1

RECURSIVE schedule_with_primary(_, _)
schedule_with_primary(s, cs) ==
  IF cs = <<>> THEN s
  ELSE schedule_with_primary(
         IF s.conn[Head(cs)].primary_plane # NONE
           THEN schedule_present(s, Head(cs)) ELSE s,
         Tail(cs))

\* MetalBackend::resume_drm_device
resume_drm_device(s, in) ==
  LET s1 == [s EXCEPT !.conn = [c \in DOMAIN @ |->
                IF c \in s.connectors
                  THEN [@[c] EXCEPT !.can_present = TRUE, !.has_damage = TRUE,
                                    !.cursor_changed = TRUE]
                  ELSE @[c]]]
  IN  IF s1.unprocessed_change THEN handle_drm_change_(s1, FALSE, in).s
      ELSE IF in.up # "ok"
        THEN update_device_properties_failing(
               s1, SelectSeq(in.cord, LAMBDA c : c \in s.connectors))
      ELSE
        Only({ Only({
          IF ~r.ok THEN s2 ELSE schedule_with_primary(s2, SetToSeq(s2.connectors)) :
          s2 \in {[r.s EXCEPT !.pass = Append(@, PassRecord("resume_drm_device", {}, r))]} }) :
          r \in {init_drm_device(update_device_properties(s1), EmptyPreserve, in)} })

\* MetalBackend::make_render_device
make_render_device(s, dev, in) ==
  IF s.ctx = dev THEN s
  ELSE
    Only({ Only({
      start_connectors(s1, EmptyPreserve, SetToSeq(s1.connectors), FALSE) :
      s1 \in {[r.s EXCEPT !.pass = Append(@, PassRecord("make_render_device", {}, r))]} }) :
      r \in {init_drm_device([s EXCEPT !.ctx = dev], EmptyPreserve, in)} })

(***************************************************************************)
(* The initial states: create_drm_device has run while no render device    *)
(* was chosen yet (init_drm_device returned at once), over a kernel that   *)
(* is either blank or was left configured by the previous master.          *)
(***************************************************************************)
Connectors(i) == DOMAIN i.conn_encoders

\* nothing is bound; a monitor is attached to the first connector only
KernelBlank(i) ==
  [master |-> TRUE,
   connectors |-> Connectors(i),
   connection |-> [c \in Connectors(i) |-> IF c = 31 THEN "Connected" ELSE "Disconnected"],
   monitor |-> [c \in Connectors(i) |-> IF c = 31 THEN MonitorA ELSE NoMonitor],
   modes |-> [c \in Connectors(i) |-> IF c = 31 THEN <<Mode1080>> ELSE <<>>],
   conn_crtc |-> [c \in Connectors(i) |-> NONE],
   crtc_active |-> [x \in CrtcIds(i) |-> FALSE],
   crtc_mode |-> [x \in CrtcIds(i) |-> NONE],
   plane_crtc |-> [p \in i.planes |-> NONE],
   plane_fb |-> [p \in i.planes |-> NONE]]

\* the previous master left the first connector lit in its first mode
KernelBooted(i) ==
  [KernelBlank(i) EXCEPT !.conn_crtc[31] = 41, !.crtc_active[41] = TRUE,
                         !.crtc_mode[41] = create_blob(Mode1080),
                         !.plane_crtc[51] = 41, !.plane_fb[51] = 99]

\* create_crtc
create_crtc(k, x) ==
  [connector |-> NONE, active |-> k.crtc_active[x], mode_id |-> k.crtc_mode[x],
   mode_blob |-> NONE]

\* create_plane
create_plane(k, p) == [assigned |-> FALSE, crtc_id |-> k.plane_crtc[p]]

\* MetalBackend::create_drm_device over inventory i and kernel state k
create_drm_device(i, k) ==
  LET s0 == [inv |-> i, kern |-> k]
  IN  /\ inv = i
      /\ ctx = NONE
      /\ unprocessed_change = FALSE
      /\ connectors = Connectors(i)
      /\ futures = Connectors(i)
      /\ conn = [c \in Connectors(i) |-> create_connector(s0, c)]
      /\ crtc = [x \in CrtcIds(i) |-> create_crtc(k, x)]
      /\ plane = [p \in i.planes |-> create_plane(k, p)]
      /\ hcs = [c \in Connectors(i) |-> {}]
      /\ kern = k
      /\ flips = <<>>
      /\ swap_requests = [c \in Connectors(i) |-> 0]
      /\ eacces = [c \in Connectors(i) |-> FALSE]
      /\ handle_events = TRUE
      /\ last = [op |-> "create_drm_device", c |-> NONE, arg |-> NONE, commits |-> <<>>,
                 renders |-> <<>>, emitted |-> <<>>,
                 backend_events |-> <<"NewDrmDevice">>
                    \o [n \in 1..Cardinality(Connectors(i)) |->
                          <<"NewConnector", SetToSeq(Connectors(i))[n]>>],
                 pass |-> <<>>, feedbacks |-> <<>>]

\* the Err values create_drm_device returns, in the order of the steps that
\* return them
ConstructionErrors ==
  <<"AtomicModesetting", "GetResources", "GetPlanes", "CreatePlane", "CreateCrtc",
    "CreateEncoder", "CreateRenderContex", "GbmDevice", "CreateConnector", "Modeset">>

\* the backend before it has a device over inventory i and kernel state k,
\* its render context being c
NoDevice(i, k, c) ==
  [inv |-> i, ctx |-> c, unprocessed_change |-> FALSE, connectors |-> {},
   futures |-> {}, conn |-> <<>>, crtc |-> <<>>, plane |-> <<>>, hcs |-> <<>>,
   kern |-> k, flips |-> <<>>, hotplugs |-> 0, passes |-> 0, faults |-> 0,
   swap_requests |-> <<>>, eacces |-> <<>>, handle_events |-> FALSE,
   commits |-> <<>>, renders |-> <<>>, emitted |-> <<>>, backend_events |-> <<>>,
   pass |-> <<>>, feedbacks |-> <<>>]

\* the MetalDrmDeviceData that create_drm_device builds (slf) before
\* init_drm_device
new_device(p) ==
  [p EXCEPT !.connectors = Connectors(p.inv),
            !.futures = Connectors(p.inv),
            !.conn = [c \in Connectors(p.inv) |-> create_connector(p, c)],
            !.crtc = [x \in CrtcIds(p.inv) |-> create_crtc(p.kern, x)],
            !.plane = [q \in p.inv.planes |-> create_plane(p.kern, q)],
            !.hcs = [c \in Connectors(p.inv) |-> {}],
            !.swap_requests = [c \in Connectors(p.inv) |-> 0],
            !.eacces = [c \in Connectors(p.inv) |-> FALSE]]

RECURSIVE announce_connectors(_, _)
\* the loop of create_drm_device that pushes NewConnector
announce_connectors(s, cs) ==
  IF cs = <<>> THEN s
  ELSE
    LET c == Head(cs)
        s1 == [s EXCEPT !.backend_events = Append(@, <<"NewConnector", c>>)]
    IN  Only({ announce_connectors(s2, Tail(cs)) :
               s2 \in {IF connected(s1, c) THEN start_connector(s1, c) ELSE s1} })

\* create_drm_device that registers the device before it configures it
create_drm_device_announcing_first(p, fail, in) ==
  IF fail # "none" THEN [s |-> p, result |-> fail]
  ELSE
    Only({
      IF ~r.ok
        THEN [s |-> [p EXCEPT !.kern = r.s.kern, !.commits = r.s.commits,
                              !.backend_events = <<"NewDrmDevice">>],
              result |-> "Modeset"]
      ELSE [s |-> [announce_connectors(
                     [r.s EXCEPT !.backend_events = Append(@, "NewDrmDevice")],
                     SelectSeq(in.cord, LAMBDA c : c \in r.s.connectors))
                     EXCEPT !.handle_events = TRUE],
            result |-> "ok"] :
      r \in {init_drm_device(new_device(p), EmptyPreserve, in)} })

\* MetalBackend::create_drm_device, step by step.  p: the backend without
\* the device; fail: the step before init_drm_device that fails, or "none"
\* (init_drm_device then fails with Modeset when its commit is refused).
\* Yields [s, result]; when result is an error, slf and all it holds are
\* dropped and only what the commits did to the kernel remains.
create_drm_device_from(p, fail, in) ==
  IF fail # "none" THEN [s |-> p, result |-> fail]
  ELSE
    Only({
      IF ~r.ok
        THEN [s |-> [p EXCEPT !.kern = r.s.kern, !.commits = r.s.commits],
              result |-> "Modeset"]
      ELSE [s |-> [announce_connectors(
                     [r.s EXCEPT !.backend_events = Append(@, "NewDrmDevice")],
                     SelectSeq(in.cord, LAMBDA c : c \in r.s.connectors))
                     EXCEPT !.handle_events = TRUE],
            result |-> "ok"] :
      r \in {init_drm_device(new_device(p), EmptyPreserve, in)} })

\* nothing has happened yet; n reconfiguration requests are to come, f
\* failures are not to be injected
Budget(n, f) ==
  /\ hotplugs = 0
  /\ passes = n
  /\ faults = f
  /\ builder = NewBuilder
  /\ master = NewMaster

Fresh(f) == Budget(MaxPasses, f)

InitA == /\ \E k \in {KernelBlank(InventoryA), KernelBooted(InventoryA)} :
              create_drm_device(InventoryA, k)
         /\ Fresh(0)

InitB == /\ \E k \in {KernelBlank(InventoryB), KernelBooted(InventoryB)} :
              create_drm_device(InventoryB, k)
         /\ Fresh(0)

\* both monitors are attached, the first connector is lit
KernelTwoMonitors(i) ==
  [KernelBooted(i) EXCEPT !.connection[32] = "Connected", !.monitor[32] = MonitorB,
                          !.modes[32] = <<Mode1080>>]

\* two connectors compete for the one crtc
InitShared ==
  /\ create_drm_device(InventoryShared, KernelTwoMonitors(InventoryShared))
  /\ Budget(MaxPassesShared, 0)

\* Scenario A's device with its connector lit; no failure is injected
InitRetry == create_drm_device(InventoryA, KernelBooted(InventoryA)) /\ Fresh(0)

InitCursor == create_drm_device(InventoryA, KernelBlank(InventoryA)) /\ Fresh(MaxFaults)

(***************************************************************************)
(* The inputs of a pass.                                                   *)
(***************************************************************************)
RECURSIVE Reverse(_)
Reverse(s) == IF s = <<>> THEN <<>> ELSE Append(Reverse(Tail(s)), Head(s))

\* the iteration orders of a hash map that are told apart: ascending and
\* descending ids
MapOrders(S) == {SetToSeq(S), Reverse(SetToSeq(S))}

\* at most one allocation fails in a pass
AllocFailures(i) ==
  { [c \in Connectors(i) |-> IF c = d THEN f ELSE "none"] :
      d \in Connectors(i), f \in {"none", "primary", "cursor"} }

\* the kernel's answers to a commit without PAGE_FLIP_EVENT
PassResults(s) == CommitResults(s, {}, EmptyChange)

\* the failures a pass input injects
Faults(in) ==
  (IF in.r1 = "EINVAL" THEN 1 ELSE 0) + (IF in.r2 = "EINVAL" THEN 1 ELSE 0)
  + Cardinality({ c \in DOMAIN in.af : in.af[c] # "none" })

\* what reading the properties of the device's objects may answer: the read
\* of a connector that the kernel no longer has may fail
UpdateResults(s) ==
  IF s.connectors \subseteq s.kern.connectors THEN {"ok"} ELSE {"ok", "ENOENT"}

PassInputs(s) ==
  { in \in
  [up : UpdateResults(s),
   cord : MapOrders(Connectors(s.inv)),
   xord : MapOrders(CrtcIds(s.inv)),
   pord : MapOrders(s.inv.planes),
   af : AllocFailures(s.inv),
   r1 : PassResults(s),
   r2 : PassResults(s)] : s.faults + Faults(in) <= MaxFaults }

\* a reconfiguration request handled with input in, which led to s
Requested(s, op, c, in) ==
  \E t \in {s} :
    IF t = Cur THEN UNCHANGED vars
    ELSE /\ Logs([t EXCEPT !.passes = @ - 1, !.faults = @ + Faults(in)],
                 op, c, NONE, TRUE)

\* what the state holds for the output node of a connector: none, or a node
\* whose surfaces hand n presentation feedbacks to the render pass
OutputNodes(k) ==
  {<<>>} \cup { <<n>> : n \in { m \in 0..1 : k.presentation_feedbacks + m <= MaxFeedbacks } }

\* the cursor positions a client sets
CursorPositions == {<<8, 4>>}

\* what the kernel may come to report for a connector
HotplugStates ==
  { [connection |-> "Disconnected", monitor |-> NoMonitor, modes |-> <<>>],
    [connection |-> "Connected", monitor |-> MonitorA, modes |-> <<Mode1080>>],
    [connection |-> "Connected", monitor |-> MonitorB, modes |-> <<Mode1080>>],
    [connection |-> "Connected", monitor |-> MonitorA, modes |-> <<Mode1080i, Mode720>>] }

(***************************************************************************)
(* The actions.                                                            *)
(***************************************************************************)
\* the compositor damages the output of connector c
\* damage() is logged in `last` whatever it does; the compositor may still
\* call it on a connector that was removed
Damage(c) ==
  /\ Logs(damage(Cur, c), "damage", c, NONE, TRUE)

\* a client's calls on the hardware cursor object of generation g
HcSetEnabled(c, g, enabled) ==
  /\ Becomes(hc_set_enabled(Cur, c, g, enabled), "hc_set_enabled", c)

HcSetPosition(c, g, pos) ==
  /\ Becomes(hc_set_position(Cur, c, g, pos[1], pos[2]), "hc_set_position", c)

HcSwapBuffer(c, g) ==
  /\ Becomes(hc_swap_buffer([Cur EXCEPT !.swap_requests[c] = (@ + 1) % 2], c, g),
             "hc_swap_buffer", c)

\* commit() is logged in `last` whatever it does
HcCommit(c, g) ==
  /\ Logs(hc_commit(Cur, c, g), "hc_commit", c, g, TRUE)

\* one turn of present_loop: the trigger is consumed and present() runs;
\* nodes: what the state may hold for the output node of the connector
PresentLoopWith(c, nodes) ==
  /\ c \in futures
  /\ conn[c].present_trigger
  /\ LET s == [Cur EXCEPT !.conn[c].present_trigger = FALSE]
     IN  \E node \in nodes : \E res \in present_results(s, c, node) :
           LET fault == IF res = "EINVAL" /\ "ok" \in present_results(s, c, node)
                          THEN 1 ELSE 0
           IN  /\ faults + fault <= MaxFaults
               /\ Logs([present([s EXCEPT !.faults = @ + fault], c, node, res)
                          EXCEPT !.eacces[c] = IF res = "none" THEN @
                                               ELSE res = "EACCES"],
                       "present", c, NONE, TRUE)

PresentLoop(c) == PresentLoopWith(c, OutputNodes(conn[c]))

\* present_loop while no surface asks for presentation feedback
PresentLoopNoFeedback(c) ==
  PresentLoopWith(c, OutputNodes(conn[c]) \cap {<<>>, <<0>>})

\* handle_drm_events reads the next flip-complete event
Flip ==
  /\ handle_events
  /\ flips # <<>>
  /\ \E global \in BOOLEAN :
       Logs(handle_drm_flip_event([Cur EXCEPT !.flips = Tail(@)],
                                  Head(flips).crtc_id, global),
            "flip", Head(flips).by, global, FALSE)

MakeRenderDevice(dev) ==
  /\ passes > 0 \/ ctx = dev
  /\ \E in \in PassInputs(Cur) :
    Requested(make_render_device(Cur, dev, in), "make_render_device", NONE, in)

\* a udev change event of the device
HandleDrmChange ==
  /\ passes > 0
  /\ \E in \in PassInputs(Cur) :
    Requested(handle_drm_change(Cur, in), "handle_drm_change", NONE, in)

SetEnabled(c, enabled) ==
  /\ c \in connectors
  /\ passes > 0 \/ conn[c].enabled = enabled
  /\ \E in \in PassInputs(Cur) :
       Requested(set_enabled(Cur, c, enabled, in), "set_enabled", c, in)

\* the session is paused: the process is no longer DRM master
Pause ==
  /\ kern.master
  /\ Becomes([Cur EXCEPT !.kern.master = FALSE], "pause", NONE)

\* the session is resumed: the process is DRM master again
Resume ==
  /\ ~kern.master
  /\ passes > 0
  /\ LET s == [Cur EXCEPT !.kern.master = TRUE]
     IN  \E in \in PassInputs(s) :
           Requested(resume_drm_device(s, in), "resume_drm_device", NONE, in)

\* the kernel comes to report st for connector c
Hotplug(c, st) ==
  /\ hotplugs < MaxHotplug
  /\ c \in kern.connectors
  /\ [connection |-> kern.connection[c], monitor |-> kern.monitor[c],
      modes |-> kern.modes[c]] # st
  /\ Becomes([Cur EXCEPT !.kern.connection[c] = st.connection,
                         !.kern.monitor[c] = st.monitor,
                         !.kern.modes[c] = st.modes,
                         !.hotplugs = @ + 1], "hotplug", c)

\* the kernel drops connector c from its list of connectors
Unplug(c) ==
  /\ hotplugs < MaxHotplug
  /\ c \in kern.connectors
  /\ Becomes([Cur EXCEPT !.kern.connectors = @ \ {c},
                         !.hotplugs = @ + 1], "unplug", c)

\* the objects and the closures of the calls made on the builder's Change
BuilderObjects == {31, 41, 51}

BuilderWrites ==
  { <<>>, << <<"FB_ID", 101>> >>, << <<"CRTC_ID", 41>>, <<"FB_ID", 101>> >> }

\* one change_object call on the Change under construction
ChangeObject(obj, writes) ==
  /\ builder.live
  /\ builder.sent = <<>>
  /\ Len(builder.calls) < MaxCalls
  /\ builder' = [builder EXCEPT !.change = change_object(@, obj, writes),
                                !.calls = Append(@, <<obj, writes>>)]
  /\ UNCHANGED <<inv, ctx, unprocessed_change, connectors, futures, conn, crtc, plane,
                 hcs, kern, flips, hotplugs, passes, faults, swap_requests, eacces,
                 handle_events, master, last>>

\* the Change under construction is committed
ChangeCommit ==
  /\ builder.live
  /\ builder.sent = <<>>
  /\ builder' = [builder EXCEPT !.sent = <<mode_atomic_args(builder.change)>>]
  /\ UNCHANGED <<inv, ctx, unprocessed_change, connectors, futures, conn, crtc, plane,
                 hcs, kern, flips, hotplugs, passes, faults, swap_requests, eacces,
                 handle_events, master, last>>

\* the committed Change is dropped
ChangeDrop ==
  /\ builder.live
  /\ builder.sent # <<>>
  /\ LET d == drop_change(builder.change, builder.u32_bufs, builder.u64_bufs)
     IN  builder' = [builder EXCEPT !.change = EmptyChange, !.live = FALSE,
                                    !.u32_bufs = d.u32_bufs, !.u64_bufs = d.u64_bufs]
  /\ UNCHANGED <<inv, ctx, unprocessed_change, connectors, futures, conn, crtc, plane,
                 hcs, kern, flips, hotplugs, passes, faults, swap_requests, eacces,
                 handle_events, master, last>>

\* the next Change is begun
ChangeNew ==
  /\ ~builder.live
  /\ builder' = BuilderFrom(builder.u32_bufs, builder.u64_bufs)
  /\ UNCHANGED <<inv, ctx, unprocessed_change, connectors, futures, conn, crtc, plane,
                 hcs, kern, flips, hotplugs, passes, faults, swap_requests, eacces,
                 handle_events, master, last>>

\* what the device file holds when event() reads it: whole and cut records of
\* both kinds, with length fields that are right, too small and too large
EventRecords ==
  { VblankBytes(DRM_EVENT_FLIP_COMPLETE, DrmEventVblankSize, 7, k, DrmEventVblankSize) :
      k \in {41, 42} }
    \cup { VblankBytes(DRM_EVENT_VBLANK, DrmEventVblankSize, 7, 41, DrmEventVblankSize),
           VblankBytes(3, DrmEventSize, 0, 0, DrmEventSize),
           VblankBytes(DRM_EVENT_FLIP_COMPLETE, 0, 7, 41, DrmEventVblankSize),
           VblankBytes(3, 0, 0, 0, DrmEventSize),
           VblankBytes(3, 4, 0, 0, DrmEventSize),
           VblankBytes(3, 2 * DrmEventSize, 0, 0, DrmEventSize),
           VblankBytes(DRM_EVENT_FLIP_COMPLETE, DrmEventSize, 0, 0, DrmEventSize),
           VblankBytes(3, DrmEventSize, 0, 0, 4) }

\* the byte strings made of n records
RECURSIVE RecordRuns(_)
RecordRuns(n) ==
  IF n = 0 THEN {<<>>}
  ELSE { x \o y : x \in RecordRuns(n - 1), y \in EventRecords }

\* the answers of read(): an error, or the bytes of up to MaxRecords records
ReadOutcomes ==
  { [errno |-> e, bytes |-> <<>>] : e \in {"EAGAIN", "EIO"} }
    \cup { [errno |-> "none", bytes |-> b] :
             b \in UNION { RecordRuns(n) : n \in 0..MaxRecords } }

\* event() is called and runs up to its loop
EventCall(rd) ==
  /\ master.pc = "idle"
  /\ master.events # <<>> \/ master.reads < MaxReads
  /\ master' = event_begin(master, rd)
  /\ UNCHANGED <<inv, ctx, unprocessed_change, connectors, futures, conn, crtc, plane,
                 hcs, kern, flips, hotplugs, passes, faults, swap_requests, eacces,
                 handle_events, builder, last>>

\* the loop of event() tests its condition and runs its body once, or event()
\* returns
EventLoop ==
  /\ master.pc = "loop"
  /\ master.iterations < MaxIterations
  /\ master' = event_loop(master)
  /\ UNCHANGED <<inv, ctx, unprocessed_change, connectors, futures, conn, crtc, plane,
                 hcs, kern, flips, hotplugs, passes, faults, swap_requests, eacces,
                 handle_events, builder, last>>

(***************************************************************************)
(* The specifications.                                                     *)
(***************************************************************************)
\* the output path and every reconfiguration request
Next ==
  \/ \E c \in DOMAIN conn : Damage(c)
  \/ \E c \in DOMAIN conn : PresentLoop(c)
  \/ Flip
  \/ \E dev \in {ThisDev, OtherDev} : MakeRenderDevice(dev)
  \/ HandleDrmChange
  \/ \E c \in DOMAIN conn, enabled \in BOOLEAN : SetEnabled(c, enabled)
  \/ Pause
  \/ Resume
  \/ \E c \in DOMAIN conn, st \in HotplugStates : Hotplug(c, st)

\* Scenario A's device: one crtc, one connector, a primary and a cursor plane
Spec == InitA /\ [][Next]_vars

\* the hardware cursor: a client's calls, present, flips, render device changes
NextCursor ==
  \/ \E c \in DOMAIN conn : \E o \in hcs[c], enabled \in BOOLEAN :
       HcSetEnabled(c, o.generation, enabled)
  \/ \E c \in DOMAIN conn : \E o \in hcs[c], pos \in CursorPositions :
       HcSetPosition(c, o.generation, pos)
  \/ \E c \in DOMAIN conn : \E o \in hcs[c] : HcSwapBuffer(c, o.generation)
  \/ \E c \in DOMAIN conn : \E o \in hcs[c] : HcCommit(c, o.generation)
  \/ \E c \in DOMAIN conn : PresentLoopNoFeedback(c)
  \/ Flip
  \/ \E dev \in {ThisDev, OtherDev} : MakeRenderDevice(dev)

SpecCursor == InitCursor /\ [][NextCursor]_vars

\* reconfiguration of a device with two connectors, two crtcs and a primary
\* plane to contend for
NextB ==
  \/ \E c \in DOMAIN conn : PresentLoop(c)
  \/ Flip
  \/ MakeRenderDevice(ThisDev)
  \/ HandleDrmChange
  \/ \E c \in DOMAIN conn, enabled \in BOOLEAN : SetEnabled(c, enabled)
  \/ \E c \in DOMAIN conn, st \in HotplugStates : Hotplug(c, st)

SpecB == InitB /\ [][NextB]_vars

\* the change builder alone: every sequence of up to MaxCalls calls
\* two connectors and one crtc: the reconfiguration requests alone
NextShared ==
  \/ \E dev \in {ThisDev, OtherDev} : MakeRenderDevice(dev)
  \/ HandleDrmChange

SpecShared == InitShared /\ [][NextShared]_vars

\* losing and regaining DRM master: damage, the hardware cursor, present,
\* flips, pause and resume, a monitor change
NextRetry ==
  \/ \E c \in DOMAIN conn : Damage(c)
  \/ \E c \in DOMAIN conn : \E o \in hcs[c], pos \in CursorPositions :
       HcSetPosition(c, o.generation, pos)
  \/ \E c \in DOMAIN conn : \E o \in hcs[c] : HcCommit(c, o.generation)
  \/ \E c \in DOMAIN conn : PresentLoop(c)
  \/ Flip
  \/ MakeRenderDevice(ThisDev)
  \/ Pause
  \/ Resume
  \/ \E c \in DOMAIN conn, st \in HotplugStates : Hotplug(c, st)

SpecRetry == InitRetry /\ [][NextRetry]_vars

\* a connector disappears: change passes, and the calls and events that may
\* still arrive for it
NextRemove ==
  \/ \E c \in DOMAIN conn : Damage(c)
  \/ \E c \in DOMAIN conn : \E o \in hcs[c], pos \in CursorPositions :
       HcSetPosition(c, o.generation, pos)
  \/ \E c \in DOMAIN conn : \E o \in hcs[c] : HcCommit(c, o.generation)
  \/ \E c \in DOMAIN conn : PresentLoop(c)
  \/ Flip
  \/ MakeRenderDevice(ThisDev)
  \/ HandleDrmChange
  \/ \E c \in DOMAIN conn : Unplug(c)

SpecRemove == InitA /\ [][NextRemove]_vars

\* the construction of the device, with a step that fails or with none, and
\* the output path of the device once it is there
InitCreate ==
  /\ \E i \in {InventoryA, InventoryB},
        c \in {NONE, ThisDev, OtherDev} :
       \E k \in {KernelBlank(i), KernelBooted(i)} :
         \E p \in {NoDevice(i, k, c)} :
           /\ inv = p.inv /\ ctx = p.ctx
           /\ unprocessed_change = p.unprocessed_change
           /\ connectors = p.connectors /\ futures = p.futures
           /\ conn = p.conn /\ crtc = p.crtc /\ plane = p.plane /\ hcs = p.hcs
           /\ kern = p.kern /\ flips = p.flips
           /\ swap_requests = p.swap_requests /\ eacces = p.eacces
           /\ handle_events = p.handle_events
  /\ last = Idle
  /\ Budget(MaxPasses, 0)

\* udev announces the device: create_drm_device
CreateDrmDevice ==
  /\ ~handle_events
  /\ passes > 0
  /\ \E fail \in (SeqRange(ConstructionErrors) \ {"Modeset"}) \cup {"none"} :
     \E in \in PassInputs(Cur) :
       \E r \in {create_drm_device_from(Cur, fail, in)} :
         Logs([r.s EXCEPT !.passes = @ - 1, !.faults = @ + Faults(in)],
              "create_drm_device", NONE, r.result, TRUE)

NextCreate ==
  \/ CreateDrmDevice
  \/ \E c \in DOMAIN conn : Damage(c)
  \/ \E c \in DOMAIN conn : PresentLoop(c)
  \/ Flip

SpecCreate == InitCreate /\ [][NextCreate]_vars

\* two lit connectors on the device with two crtcs: the passes that
\* configure them, then configure them again
InitPlanes ==
  /\ create_drm_device(InventoryB, KernelTwoMonitors(InventoryB))
  /\ Fresh(0)

NextPlanes ==
  \/ \E dev \in {ThisDev, OtherDev} : MakeRenderDevice(dev)
  \/ HandleDrmChange
  \/ \E c \in DOMAIN conn, enabled \in BOOLEAN : SetEnabled(c, enabled)
  \/ Pause
  \/ Resume

SpecPlanes == InitPlanes /\ [][NextPlanes]_vars

\* the same passes on the device whose first connector reaches one crtc only
InitReach ==
  /\ create_drm_device(InventoryReach, KernelTwoMonitors(InventoryReach))
  /\ Fresh(0)

SpecReach == InitReach /\ [][NextPlanes]_vars

\* a lit connector while every commit succeeds: damage, the hardware cursor,
\* present and flips after the one pass that configures the device
InitLive ==
  /\ create_drm_device(InventoryA, KernelBooted(InventoryA))
  /\ Budget(1, MaxFaults)

NextLive ==
  \/ \E c \in DOMAIN conn : Damage(c)
  \/ \E c \in DOMAIN conn : \E o \in hcs[c], pos \in CursorPositions :
       HcSetPosition(c, o.generation, pos)
  \/ \E c \in DOMAIN conn : \E o \in hcs[c] : HcCommit(c, o.generation)
  \/ \E c \in DOMAIN conn : PresentLoop(c)
  \/ Flip
  \/ MakeRenderDevice(ThisDev)

\* the executor runs the present task of a connector once its trigger has
\* fired (present_loop), and the task that reads the device file handles
\* every flip-complete event that the kernel has queued (handle_drm_events)
SpecLive ==
  /\ InitLive
  /\ [][NextLive]_vars
  /\ \A c \in Connectors(InventoryA) : WF_vars(PresentLoop(c))
  /\ WF_vars(Flip)

\* a connector is disabled and enabled while another one disappears: the
\* calls and events that may arrive for it afterwards, no injected failure
InitDisable ==
  /\ create_drm_device(InventoryB, KernelBooted(InventoryB))
  /\ Budget(MaxPasses, MaxFaults)

NextDisable ==
  \/ \E c \in DOMAIN conn : Damage(c)
  \/ \E c \in DOMAIN conn : \E o \in hcs[c], pos \in CursorPositions :
       HcSetPosition(c, o.generation, pos)
  \/ \E c \in DOMAIN conn : \E o \in hcs[c] : HcCommit(c, o.generation)
  \/ \E c \in DOMAIN conn : PresentLoop(c)
  \/ Flip
  \/ MakeRenderDevice(ThisDev)
  \/ \E c \in DOMAIN conn, enabled \in BOOLEAN : SetEnabled(c, enabled)
  \/ \E c \in DOMAIN conn : Unplug(c)

SpecDisable == InitDisable /\ [][NextDisable]_vars

\* a change pass while the session is paused: the hardware cursor, present
\* and flips around a pass whose commit is refused, a monitor change
NextLost ==
  \/ \E c \in DOMAIN conn : \E o \in hcs[c], pos \in CursorPositions :
       HcSetPosition(c, o.generation, pos)
  \/ \E c \in DOMAIN conn : \E o \in hcs[c] : HcCommit(c, o.generation)
  \/ \E c \in DOMAIN conn : PresentLoop(c)
  \/ Flip
  \/ MakeRenderDevice(ThisDev)
  \/ HandleDrmChange
  \/ Pause
  \/ \E c \in DOMAIN conn, st \in HotplugStates : Hotplug(c, st)

SpecLost == InitRetry /\ [][NextLost]_vars

\* what the kernel may come to report when it probes a connector again: as
\* HotplugStates, or the same monitor with an empty list of modes
ReprobeStates ==
  HotplugStates
  \cup { [connection |-> "Connected", monitor |-> MonitorA, modes |-> <<>>] }

\* a monitor whose modes change: the passes that restart its connector,
\* present and flips, no injected failure
InitModes ==
  /\ create_drm_device(InventoryA, KernelBooted(InventoryA))
  /\ Budget(MaxPasses, MaxFaults)

NextModes ==
  \/ \E c \in DOMAIN conn : PresentLoop(c)
  \/ Flip
  \/ MakeRenderDevice(ThisDev)
  \/ HandleDrmChange
  \/ \E c \in DOMAIN conn, enabled \in BOOLEAN : SetEnabled(c, enabled)
  \/ \E c \in DOMAIN conn, st \in ReprobeStates : Hotplug(c, st)

SpecModes == InitModes /\ [][NextModes]_vars

\* change passes that fail and are rerun: the reconfiguration requests, the
\* loss of DRM master, a monitor change, a connector that disappears
InitUnprocessed ==
  /\ create_drm_device(InventoryA, KernelBooted(InventoryA))
  /\ Budget(MaxPassesUnprocessed, 0)

NextUnprocessed ==
  \/ MakeRenderDevice(ThisDev)
  \/ HandleDrmChange
  \/ \E c \in DOMAIN conn, enabled \in BOOLEAN : SetEnabled(c, enabled)
  \/ Pause
  \/ Resume
  \/ \E c \in DOMAIN conn, st \in HotplugStates : Hotplug(c, st)
  \/ \E c \in DOMAIN conn : Unplug(c)

SpecUnprocessed == InitUnprocessed /\ [][NextUnprocessed]_vars

NextChange ==
  \/ \E obj \in BuilderObjects, writes \in BuilderWrites : ChangeObject(obj, writes)
  \/ ChangeCommit
  \/ ChangeDrop
  \/ ChangeNew

InitChange == create_drm_device(InventoryA, KernelBlank(InventoryA)) /\ Fresh(0)

SpecChange == InitChange /\ [][NextChange]_vars

\* the event reader alone: up to MaxReads reads of the device file, each
\* parsed to the end
NextEvent ==
  \/ \E rd \in ReadOutcomes : EventCall(rd)
  \/ EventLoop

InitEvent == create_drm_device(InventoryA, KernelBooted(InventoryA)) /\ Fresh(MaxFaults)

SpecEvent == InitEvent /\ [][NextEvent]_vars /\ WF_vars(EventLoop)

(***************************************************************************)
(* The claims.                                                             *)
(***************************************************************************)
\* the step is a present() of connector c that issued a commit
PresentCommitted(c) == last'.op = "present" /\ last'.c = c /\ last'.commits # <<>>

\* the step is a present() of connector c whose commit the kernel answered res
PresentAnswered(c, res) == PresentCommitted(c) /\ last'.commits[1].result = res

\* the present commits of connector c whose flip-complete event is unhandled
Outstanding(c) == { i \in 1..Len(flips) : flips[i].by = c }

\* C1: once present() has issued a successful commit for a connector, it
\* issues no further commit for that connector until the flip-complete event
\* of that commit has been handled
C1_NoCommitWhileFlipPending ==
  [][\A c \in DOMAIN conn : Outstanding(c) # {} => ~PresentCommitted(c)]_vars

\* C2 as stated: when the commit of present() fails with EACCES, has_damage
\* and cursor_changed remain set and can_present remains false
C2_EaccesLeavesCanPresentFalse ==
  [][\A c \in DOMAIN conn :
       PresentAnswered(c, "EACCES") =>
         /\ conn'[c].has_damage = conn[c].has_damage
         /\ conn'[c].cursor_changed = conn[c].cursor_changed
         /\ conn'[c].has_damage \/ conn'[c].cursor_changed
         /\ ~conn'[c].can_present]_vars

\* C2 amended: when the commit of present() fails with EACCES, has_damage and
\* cursor_changed are left as they were (one of them set) and can_present
\* remains true; a present() whose commit succeeds clears all three
C2_EaccesLeavesFlagsAndGate ==
  [][\A c \in DOMAIN conn :
       /\ PresentAnswered(c, "EACCES") =>
            /\ conn'[c].has_damage = conn[c].has_damage
            /\ conn'[c].cursor_changed = conn[c].cursor_changed
            /\ conn'[c].has_damage \/ conn'[c].cursor_changed
            /\ conn[c].can_present /\ conn'[c].can_present
       /\ PresentAnswered(c, "ok") =>
            /\ ~conn'[c].has_damage
            /\ ~conn'[c].cursor_changed
            /\ ~conn'[c].can_present]_vars

\* a present() has just failed with EACCES and its damage is still pending
C2_EaccesSeen ==
  /\ last.op = "present"
  /\ last.commits # <<>>
  /\ last.commits[1].result = "EACCES"
  /\ conn[last.c].has_damage

\* the object of the commit() just made: connector last.c, generation last.arg
CommittedObject == HcOf(Cur, last.c, last.arg)

\* C3: a commit() of a hardware cursor object whose generation is not the
\* connector's cursor_generation leaves cursor_enabled, cursor_x, cursor_y,
\* cursor_swap_buffer, cursor_changed and the present trigger as they were
C3_StaleCommitChangesNothing ==
  [][\A c \in DOMAIN conn :
       (last'.op = "hc_commit" /\ last'.c = c /\ last'.arg # conn[c].cursor_generation) =>
         /\ conn'[c].cursor_enabled = conn[c].cursor_enabled
         /\ conn'[c].cursor_x = conn[c].cursor_x
         /\ conn'[c].cursor_y = conn[c].cursor_y
         /\ conn'[c].cursor_swap_buffer = conn[c].cursor_swap_buffer
         /\ conn'[c].cursor_changed = conn[c].cursor_changed
         /\ conn'[c].present_trigger = conn[c].present_trigger]_vars

\* a stale object that had every kind of change pending, the cursor state it
\* asks for differing from the connector's, has just been committed while the
\* connector could present
C3_StaleCommitSeen ==
  /\ last.op = "hc_commit"
  /\ last.arg # conn[last.c].cursor_generation
  /\ CommittedObject.have_changes
  /\ CommittedObject.cursor_swap_buffer
  /\ CommittedObject.cursor_enabled_pending # conn[last.c].cursor_enabled
  /\ CommittedObject.cursor_x_pending # conn[last.c].cursor_x
  /\ conn[last.c].can_present
  /\ ~conn[last.c].present_trigger

\* no swap_buffer() request of connector c is waiting for commit() or present()
NoSwapPending(c) ==
  /\ ~conn[c].cursor_swap_buffer
  /\ \A o \in hcs[c] : ~o.cursor_swap_buffer

\* C4 as stated: after N swap_buffer() requests (all of them committed and
\* presented) the front buffer index of the cursor pair is N mod 2
C4_FrontIndexCountsSwaps ==
  \A c \in DOMAIN conn :
    (conn[c].cursor_buffers # NoBuffers /\ NoSwapPending(c)) =>
      conn[c].cursor_front_buffer % 2 = swap_requests[c]

\* present() of connector c will take a pending swap
TakesSwap(c) ==
  /\ conn[c].cursor_changed
  /\ conn[c].cursor_plane # NONE
  /\ conn[c].cursor_enabled
  /\ conn[c].cursor_swap_buffer

\* C4 amended: the front index advances, by one, exactly in a present() that
\* reaches its commit with cursor_changed, a cursor plane, the cursor enabled
\* and the connector's cursor_swap_buffer flag set, and that clears the flag;
\* no swap_buffer() call changes it
C4_FrontAdvancesInPresent ==
  [][\A c \in DOMAIN conn :
       /\ conn'[c].cursor_front_buffer # conn[c].cursor_front_buffer =>
            /\ PresentCommitted(c)
            /\ TakesSwap(c)
       /\ (PresentCommitted(c) /\ TakesSwap(c)) =>
            /\ conn'[c].cursor_front_buffer = (conn[c].cursor_front_buffer + 1) % 2
            /\ ~conn'[c].cursor_swap_buffer]_vars

\* two swap_buffer() requests were made and taken by one present(): the front
\* index is 1, nothing is pending
C4_TwoSwapsOneAdvance ==
  /\ last.op = "present"
  /\ last.commits # <<>>
  /\ swap_requests[last.c] = 0
  /\ NoSwapPending(last.c)
  /\ conn[last.c].cursor_front_buffer = 1

\* the calls made on the builder's Change whose closure wrote a property
WritingCalls == SelectSeq(builder.calls, LAMBDA call : call[2] # <<>>)

\* the positions in WritingCalls where the object differs from the call before
RunStarts ==
  { i \in 1..Len(WritingCalls) : i = 1 \/ WritingCalls[i][1] # WritingCalls[i - 1][1] }

\* C5 as stated: the number of distinct object ids in the committed batch
\* equals the number of groups passed to the atomic commit call
C5_GroupsAreDistinctObjects ==
  builder.sent # <<>> =>
    Cardinality(SeqRange(builder.sent[1].objects)) = Len(builder.sent[1].objects)
      /\ Len(builder.sent[1].object_lengths) = Len(builder.sent[1].objects)

\* C5 amended: the groups passed to the atomic commit call are the maximal
\* runs of consecutive property-writing calls on the same object: adjacent
\* groups name different objects, the lengths add up to the number of
\* properties, and the distinct object ids are at most as many as the groups
C5_GroupsAreRuns ==
  builder.sent # <<>> =>
    LET b == builder.sent[1]
    IN  /\ Len(b.objects) = Cardinality(RunStarts)
        /\ Len(b.object_lengths) = Len(b.objects)
        /\ \A k \in 1..Len(b.objects) :
             /\ b.object_lengths[k] > 0
             /\ k > 1 => b.objects[k] # b.objects[k - 1]
        /\ SumSeq(b.object_lengths) = Len(b.props)
        /\ Len(b.values) = Len(b.props)
        /\ Cardinality(SeqRange(b.objects)) <= Len(b.objects)

\* a Change built by property-writing calls on A, B, A was committed: three
\* groups, two distinct objects
C5_RevisitedObjectCommitted ==
  /\ builder.sent # <<>>
  /\ Len(WritingCalls) = 3
  /\ WritingCalls[1][1] = WritingCalls[3][1]
  /\ WritingCalls[1][1] # WritingCalls[2][1]
  /\ Len(builder.sent[1].objects) = 3
  /\ Cardinality(SeqRange(builder.sent[1].objects)) = 2

\* connector c is enabled and its display data say Connected
EnabledConnected(c) == conn[c].enabled /\ conn[c].display.connection = "Connected"

\* the fields of a mode that the claim lists
TimingFields ==
  {"clock", "hdisplay", "vdisplay", "hsync_start", "hsync_end", "vsync_start",
   "vsync_end", "htotal", "vtotal", "hskew", "vscan", "vrefresh", "flags"}

\* connector c has a crtc that is active and runs the connector's desired mode
RunsDesiredMode(c) ==
  LET dd == conn[c].display
  IN  /\ dd.crtc_id # NONE
      /\ crtc[dd.crtc_id].active
      /\ dd.mode # <<>>
      /\ getblob(crtc[dd.crtc_id].mode_id) # <<>>
      /\ \A f \in TimingFields : dd.mode[1][f] = getblob(crtc[dd.crtc_id].mode_id)[1][f]

\* the inputs can_use_current_drm_mode may meet in the current state: the
\* iteration orders of the connector and plane maps, the kernel's answer
CanUseInputs ==
  [cord : { SelectSeq(o, LAMBDA c : c \in connectors) : o \in MapOrders(Connectors(inv)) },
   pord : MapOrders(inv.planes),
   r1 : PassResults(Cur)]

\* what can_use_current_drm_mode returns in the current state on input in
CanUse(in) == can_use_current_drm_mode(Cur, in.cord, in.pord, in.r1).ok

\* every enabled Connected connector can be given a Primary plane of its own
\* that is bound to its crtc and among the crtc's possible planes
BoundPrimaryPlanes ==
  LET lit == { c \in connectors : EnabledConnected(c) }
  IN  \E f \in [lit -> inv.planes] :
        /\ \A c \in lit :
             /\ inv.ty[f[c]] = "Primary"
             /\ f[c] \in possible_planes(inv, conn[c].display.crtc_id)
             /\ plane[f[c]].crtc_id = conn[c].display.crtc_id
        /\ \A c, d \in lit : c # d => f[c] # f[d]

\* C6 as stated: can_use_current_drm_mode returns true if and only if every
\* enabled Connected connector has an active crtc running its desired mode
\* and an unclaimed bound Primary plane; nothing else influences the result
\* (stated here for the calls whose crtc-deactivating commit succeeds)
C6_ReuseIffConnectorsRunModes ==
  \A in \in CanUseInputs :
    in.r1 = "ok" =>
      (CanUse(in) <=>
         /\ \A c \in connectors : EnabledConnected(c) => RunsDesiredMode(c)
         /\ BoundPrimaryPlanes)

RECURSIVE ClaimsInOrder(_, _, _)
\* walking the connectors in order cord, each enabled Connected one finds,
\* in order pord, a Primary plane possible for its crtc that none before it
\* claimed, and claims the first such plane
ClaimsInOrder(cord, pord, used) ==
  IF cord = <<>> THEN TRUE
  ELSE IF ~EnabledConnected(Head(cord)) THEN ClaimsInOrder(Tail(cord), pord, used)
  ELSE LET x == conn[Head(cord)].display.crtc_id
           free == { i \in 1..Len(pord) : /\ inv.ty[pord[i]] = "Primary"
                                          /\ pord[i] \in possible_planes(inv, x)
                                          /\ pord[i] \notin used }
       IN  /\ free # {}
           /\ ClaimsInOrder(Tail(cord), pord,
                            used \cup {pord[CHOOSE i \in free : \A j \in free : i <= j]})

\* C6 amended: can_use_current_drm_mode returns true if and only if no
\* connector that is disabled or not Connected has a crtc id, every enabled
\* Connected connector has an active crtc running its desired mode, each of
\* them in iteration order finds an unclaimed Primary plane (bound or not)
\* among its crtc's possible planes, and the commit that deactivates the
\* unused crtcs succeeds
C6_ReuseIffNothingToChange ==
  \A in \in CanUseInputs :
    CanUse(in) <=>
      /\ \A c \in connectors : ~EnabledConnected(c) => conn[c].display.crtc_id = NONE
      /\ \A c \in connectors : EnabledConnected(c) => RunsDesiredMode(c)
      /\ ClaimsInOrder(in.cord, in.pord, {})
      /\ in.r1 = "ok"

\* a pass has just asked can_use_current_drm_mode, and in the state it left
\* two connectors are lit and the answer depends on the iteration order
C6_AnswerDependsOnOrder ==
  /\ last.pass # <<>>
  /\ last.pass[1].ran
  /\ Cardinality({ c \in connectors : EnabledConnected(c) }) = 2
  /\ \E in1, in2 \in CanUseInputs :
       in1.r1 = "ok" /\ in2.r1 = "ok" /\ CanUse(in1) /\ ~CanUse(in2)

\* the objects of a validated preserve set
Preserved(r) == r.preserve.connectors \cup r.preserve.crtcs \cup r.preserve.planes

\* C7: a pass run with a validated preserve set writes no reset-phase
\* property of a preserved connector, crtc or plane, and leaves each preserved
\* connector's crtc binding, primary and cursor plane, buffer pairs, cursor
\* generation and can_present, and each preserved plane's assigned flag, as
\* they were
C7_PreservedUntouched ==
  [][\A i \in 1..Len(last'.pass) :
       LET r == last'.pass[i]
       IN  r.ran =>
             /\ r.reset \cap Preserved(r) = {}
             /\ \A c \in r.preserve.connectors :
                  /\ conn'[c].crtc = conn[c].crtc
                  /\ conn'[c].primary_plane = conn[c].primary_plane
                  /\ conn'[c].cursor_plane = conn[c].cursor_plane
                  /\ conn'[c].buffers = conn[c].buffers
                  /\ conn'[c].cursor_buffers = conn[c].cursor_buffers
                  /\ conn'[c].cursor_generation = conn[c].cursor_generation
                  /\ conn'[c].can_present = conn[c].can_present
             /\ \A p \in r.preserve.planes : plane'[p].assigned = plane[p].assigned]_vars

\* the commits of the step just taken that carry the allow-modeset flag
ModesetCommits ==
  { j \in 1..Len(last.commits) : DRM_MODE_ATOMIC_ALLOW_MODESET \in last.commits[j].flags }

\* C8: on the device of scenario A (1 crtc, 1 connector, 1 Primary and 1
\* Cursor plane) a pass that takes the full allocation path for the enabled
\* Connected connector (not preserving it), in which no allocation fails and
\* the kernel refuses no commit it could accept, binds the crtc and both planes to the connector and issues
\* exactly one commit with the allow-modeset flag; every commit of present()
\* carries the nonblocking and completion-event flags only
C8_FullPathThenPlainFlip ==
  [][/\ \A i \in 1..Len(last'.pass) :
          ( /\ last'.pass[i].ran
            /\ ~last'.pass[i].fast
            /\ last'.pass[i].errors = <<>>
            /\ faults' = faults
            /\ 31 \notin last'.pass[i].preserve.connectors
            /\ EnabledConnected(31)' )
          => /\ conn'[31].crtc = 41
             /\ conn'[31].primary_plane = 51
             /\ conn'[31].cursor_plane = 52
             /\ crtc'[41].connector = 31
             /\ plane'[51].assigned /\ plane'[52].assigned
             /\ Cardinality(ModesetCommits') = 1
     /\ \A c \in DOMAIN conn :
          PresentCommitted(c) =>
            /\ Len(last'.commits) = 1
            /\ last'.commits[1].flags =
                 {DRM_MODE_ATOMIC_NONBLOCK, DRM_MODE_PAGE_FLIP_EVENT}]_vars

\* the crtc runs the mode blob the full path created, both planes are bound,
\* and a present() with damage and no cursor change has just committed the
\* primary plane's framebuffer alone, without a modeset
C8_DamageOnlyFlipAfterFullPath ==
  /\ crtc[41].mode_blob # NONE
  /\ conn[31].crtc = 41
  /\ conn[31].primary_plane = 51
  /\ conn[31].cursor_plane = 52
  /\ last.op = "present"
  /\ Len(last.commits) = 1
  /\ last.commits[1].result = "ok"
  /\ last.commits[1].objects = <<51>>
  /\ last.commits[1].props = <<"FB_ID">>
  /\ ModesetCommits = {}

\* the monitor the kernel reports behind connector c is not the one of the
\* connector's display data
MonitorReplaced(c) ==
  <<conn[c].display.monitor_manufacturer, conn[c].display.monitor_name,
    conn[c].display.monitor_serial_number>>
    # <<kern.monitor[c].manufacturer, kern.monitor[c].name, kern.monitor[c].serial_number>>

\* the step just taken emitted Disconnected and, later, Connected for c
Reconnected(c) ==
  \E i, j \in 1..Len(last.emitted) :
    /\ i < j
    /\ last.emitted[i][1] = c /\ last.emitted[i][2].ty = "Disconnected"
    /\ last.emitted[j][1] = c /\ last.emitted[j][2].ty = "Connected"

\* C9: when a change pass that succeeds finds an announced connector still
\* enabled and Connected but with another monitor behind it, the connector
\* is not a preserve candidate and not preserved, Disconnected and then
\* Connected are emitted for it, and it gets new buffer pairs and a new
\* hardware cursor generation
C9_ReplacedMonitorReconnects ==
  [][\A c \in connectors :
       ( /\ last'.op = "handle_drm_change"
         /\ Len(last'.pass) = 1
         /\ last'.pass[1].ran /\ last'.pass[1].ok
         /\ faults' = faults
         /\ conn[c].connect_sent
         /\ conn[c].enabled
         /\ c \in kern.connectors
         /\ kern.connection[c] = "Connected"
         /\ MonitorReplaced(c) )
       => /\ c \notin last'.pass[1].candidates
          /\ c \notin last'.pass[1].preserve.connectors
          /\ Reconnected(c)'
          /\ conn'[c].connect_sent
          /\ ~MonitorReplaced(c)'
          /\ conn'[c].primary_plane # NONE
          /\ conn'[c].buffers.id \notin {NONE, conn[c].buffers.id}
          /\ conn'[c].cursor_generation > conn[c].cursor_generation]_vars

\* a change pass has just found monitor S2 behind connector 31, kept the crtc
\* and its mode without a modeset, and reconnected the connector
C9_ReplacedMonitorSeen ==
  /\ last.op = "handle_drm_change"
  /\ Len(last.pass) = 1
  /\ last.pass[1].fast
  /\ last.pass[1].ok
  /\ conn[31].display.monitor_serial_number = MonitorB.serial_number
  /\ Reconnected(31)
  /\ conn[31].connect_sent

\* the step is a present() of connector c that had damage and issued a commit
PresentedDamage(c) == PresentCommitted(c) /\ conn[c].has_damage

\* the buffer of its pair that a present() of connector c with damage stages
StagedBuffer(c) == conn[c].next_buffer % 2

\* what a present() of c does to a bridged buffer: render into the bridge,
\* then copy the bridge texture into the display-local framebuffer
BridgedFrame(c) ==
  <<[c |-> c, op |-> "render", target |-> "render_fb",
     pair |-> conn[c].buffers.id, buffer |-> StagedBuffer(c)],
    [c |-> c, op |-> "copy_texture", target |-> "dev_fb",
     pair |-> conn[c].buffers.id, buffer |-> StagedBuffer(c)]>>

\* what a present() of c does to a buffer without bridge: render into the
\* display-local framebuffer
DirectFrame(c) ==
  <<[c |-> c, op |-> "render", target |-> "dev_fb",
     pair |-> conn[c].buffers.id, buffer |-> StagedBuffer(c)]>>

\* the step allocated pair new in place of pair old
Allocated(old, new) == new # NoBuffers /\ new.id # old.id

\* a pair has a bridge exactly when the render device is not the display
\* device
BridgeAsDevices(pair, render_ctx) ==
  /\ pair.dev_tex = (render_ctx # ThisDev)
  /\ pair.render_fb = (render_ctx # ThisDev)

PresentRan(c) == last'.op = "present" /\ last'.c = c

\* one of the conditions under which present() has nothing to do holds
NothingToPresent(c) ==
  \/ ~conn[c].has_damage /\ ~conn[c].cursor_changed
  \/ ~conn[c].can_present
  \/ conn[c].crtc = NONE
  \/ ~crtc[conn[c].crtc].active
  \/ conn[c].primary_plane = NONE
  \/ conn[c].buffers = NoBuffers

\* C11: present() issues no commit, renders nothing and changes nothing of
\* the connector, of the cursor objects, of the crtcs and planes and of the
\* kernel when neither has_damage nor cursor_changed is set, or can_present
\* is false, or the connector has no crtc, or its crtc is inactive, or it has
\* no primary plane, or it has no buffers (the step only consumes the trigger
\* that present_loop waited for)
C11_PresentIsNoOp ==
  [][\A c \in DOMAIN conn :
       PresentRan(c) /\ NothingToPresent(c) =>
         /\ last'.commits = <<>>
         /\ last'.renders = <<>>
         /\ last'.emitted = <<>>
         /\ conn' = [conn EXCEPT ![c].present_trigger = FALSE]
         /\ hcs' = hcs /\ crtc' = crtc /\ plane' = plane
         /\ kern' = kern /\ flips' = flips]_vars

\* present() has just run and done nothing for a connector that has damage,
\* an active crtc, a primary plane and buffers, with a render context chosen:
\* only can_present held it back
C11_GatedPresentSeen ==
  /\ last.op = "present"
  /\ last.commits = <<>>
  /\ ctx # NONE
  /\ conn[last.c].has_damage
  /\ ~conn[last.c].can_present
  /\ conn[last.c].crtc # NONE
  /\ crtc[conn[last.c].crtc].active
  /\ conn[last.c].primary_plane # NONE
  /\ conn[last.c].buffers # NoBuffers

(***************************************************************************)
(* C12: the gate after a successful present().                             *)
(***************************************************************************)
\* the step handles the flip-complete event of the crtc bound to connector c
FlipHandled(c) ==
  /\ flips # <<>>
  /\ flips' = Tail(flips)
  /\ Head(flips).crtc_id \in DOMAIN crtc
  /\ crtc[Head(flips).crtc_id].connector = c

\* C12: a present() whose commit succeeds leaves can_present, has_damage and
\* cursor_changed false, and can_present of a connector turns from false to
\* true only in the step that handles a flip-complete event of its crtc
C12_GateClosedUntilFlip ==
  [][\A c \in DOMAIN conn :
       /\ PresentAnswered(c, "ok") =>
            /\ ~conn'[c].can_present
            /\ ~conn'[c].has_damage
            /\ ~conn'[c].cursor_changed
       /\ ~conn[c].can_present /\ conn'[c].can_present => FlipHandled(c)]_vars

\* the first half of C12 alone: what a successful present() leaves
C12_SuccessClearsFlags ==
  [][\A c \in DOMAIN conn :
       PresentAnswered(c, "ok") =>
         /\ ~conn'[c].can_present
         /\ ~conn'[c].has_damage
         /\ ~conn'[c].cursor_changed]_vars

(***************************************************************************)
(* C13: the flip-complete handler.                                         *)
(***************************************************************************)
\* the step handles a flip-complete event
FlipRead == flips # <<>> /\ flips' = Tail(flips)

\* C13: handling a flip-complete event of crtc X with bound connector C sets
\* C.can_present, schedules a present for C exactly when C.has_damage or
\* C.cursor_changed is set (a present already scheduled stays scheduled),
\* resolves every pending presentation feedback of C once (presented when the
\* output exists, discarded otherwise) and changes nothing else of C and
\* nothing of any other connector; for a crtc that is unknown or has no
\* connector nothing changes
C13_FlipReopensItsConnector ==
  [][FlipRead =>
       LET X == Head(flips).crtc_id
           known == X \in DOMAIN crtc /\ crtc[X].connector # NONE
           C == crtc[X].connector
           pending == conn[C].presentation_feedbacks
       IN  /\ crtc' = crtc /\ plane' = plane /\ hcs' = hcs /\ kern' = kern
           /\ connectors' = connectors /\ futures' = futures
           /\ ~known => conn' = conn /\ last' = Idle
           /\ known =>
                /\ conn' = [conn EXCEPT
                              ![C].can_present = TRUE,
                              ![C].present_trigger =
                                 @ \/ conn[C].has_damage \/ conn[C].cursor_changed,
                              ![C].presentation_feedbacks = 0]
                /\ pending = 0 => last' = Idle
                /\ pending > 0 =>
                     /\ last'.commits = <<>> /\ last'.emitted = <<>>
                     /\ last'.arg \in BOOLEAN
                     /\ last'.feedbacks =
                          [n \in 1..pending |->
                             [c |-> C, sent |-> IF last'.arg THEN "presented"
                                                ELSE "discarded"]]]_vars

\* a flip-complete event has just been handled for a connector that had a
\* presentation feedback pending and damage: the feedback was sent presented,
\* can_present is set and a present is scheduled
C13_FlipWithFeedbackSeen ==
  /\ last.op = "flip"
  /\ last.feedbacks = <<[c |-> last.c, sent |-> "presented"]>>
  /\ conn[last.c].can_present
  /\ conn[last.c].has_damage
  /\ conn[last.c].present_trigger
  /\ conn[last.c].presentation_feedbacks = 0

(***************************************************************************)
(* C14: a present() that failed with EACCES is retried.                    *)
(***************************************************************************)
\* the step is a damage() call on connector c
DamageCalled(c) == last'.op = "damage" /\ last'.c = c

\* the step is a commit() on the current hardware cursor object of c
CurrentCursorCommitted(c) ==
  last'.op = "hc_commit" /\ last'.c = c /\ last'.arg = conn[c].cursor_generation

\* the step is a resume_drm_device() call
Resumed == last'.op = "resume_drm_device"

\* the step issued one commit, which writes the framebuffer of the primary
\* plane if damage was pending and the cursor plane if a cursor change was
\* pending on a connector that has one
CarriesPending(c) ==
  /\ Len(last'.commits) = 1
  /\ conn[c].has_damage =>
       \E j \in 1..Len(last'.commits[1].props) :
         /\ last'.commits[1].props[j] = "FB_ID"
         /\ ObjectOf(last'.commits[1], j) = conn[c].primary_plane
  /\ conn[c].cursor_changed /\ conn[c].cursor_plane # NONE =>
       conn[c].cursor_plane \in SeqRange(last'.commits[1].objects)

\* C14 as stated: a present() commit that fails with EACCES emits no event;
\* afterwards the next damage() call, current-generation commit() or
\* resume_drm_device() call schedules a present(), and present() then issues
\* a commit carrying the pending damage and cursor change
C14_EaccesRetriedAtNextCall ==
  [][\A c \in DOMAIN conn :
       /\ PresentAnswered(c, "EACCES") =>
            last'.emitted = <<>> /\ last'.backend_events = <<>>
       /\ eacces[c] /\ (DamageCalled(c) \/ CurrentCursorCommitted(c) \/ Resumed) =>
            conn'[c].present_trigger
       /\ eacces[c] /\ PresentRan(c) => CarriesPending(c)]_vars

\* C14: a present() commit that fails with EACCES emits no event and leaves
\* can_present set and has_damage or cursor_changed pending; afterwards
\* damage() schedules a present(), a current-generation commit() schedules
\* one when the object has changes (and does nothing otherwise),
\* resume_drm_device() schedules one when its pass succeeds and leaves the
\* connector with a primary plane, and present() issues a commit carrying the
\* pending damage and cursor change unless one of its early returns applies
C14_EaccesRetriedWhenPossible ==
  [][\A c \in DOMAIN conn :
       /\ PresentAnswered(c, "EACCES") =>
            /\ last'.emitted = <<>> /\ last'.backend_events = <<>>
            /\ eacces'[c]
       /\ eacces[c] => conn[c].can_present /\ (conn[c].has_damage \/ conn[c].cursor_changed)
       /\ eacces[c] /\ DamageCalled(c) =>
            conn'[c].present_trigger /\ conn'[c].has_damage
       /\ eacces[c] /\ CurrentCursorCommitted(c) =>
            IF HcOf(Cur, c, last'.arg).have_changes
              THEN conn'[c].present_trigger /\ conn'[c].cursor_changed
              ELSE conn' = conn
       /\ eacces[c] /\ Resumed /\ Last(last'.pass).ok /\ c \in connectors'
                    /\ conn'[c].primary_plane # NONE =>
            /\ conn'[c].present_trigger
            /\ conn'[c].can_present /\ conn'[c].has_damage /\ conn'[c].cursor_changed
       /\ eacces[c] /\ PresentRan(c) /\ ~NothingToPresent(c)
                    /\ (conn[c].has_damage => ctx # NONE) =>
            CarriesPending(c)]_vars

\* after a present() of the connector failed with EACCES, a damage() call
\* has just scheduled a present() for it
C14_DamageAfterEaccesSeen ==
  /\ last.op = "damage"
  /\ eacces[last.c]
  /\ ~kern.master
  /\ conn[last.c].has_damage
  /\ conn[last.c].can_present
  /\ conn[last.c].present_trigger

(***************************************************************************)
(* C15: a connector that the kernel no longer lists.                       *)
(***************************************************************************)
\* the step removes connector c from the device
Removed(c) == c \in connectors /\ c \notin connectors'

\* the types of the events the step sent to connector c, in order
EventsSent(c) ==
  LET mine == SelectSeq(last'.emitted, LAMBDA e : e[1] = c)
  IN  [n \in 1..Len(mine) |-> mine[n][2].ty]

\* the step issued a commit of present() for c, or one that writes connector c
CommitsFor(c) ==
  \E n \in 1..Len(last'.commits) :
    last'.commits[n].by = c \/ c \in SeqRange(last'.commits[n].objects)

\* the device still refers to the object of connector c, which owns its
\* buffers
HeldByCrtc(c) == \E x \in DOMAIN crtc : crtc[x].connector = c

\* C15: the pass that removes a connector cancels its present task and
\* sends it Disconnected if it had announced itself, then Removed; no commit
\* is issued for a removed connector, whatever call or event arrives; and
\* once removed, no crtc of the device refers to its object any more, so that
\* the buffers it holds are released
C15_RemovedConnectorIsGone ==
  [][\A c \in DOMAIN conn :
       /\ Removed(c) =>
            /\ c \notin futures'
            /\ EventsSent(c) = IF conn[c].connect_sent
                                 THEN <<"Disconnected", "Removed">>
                                 ELSE <<"Removed">>
       /\ c \notin connectors' => ~CommitsFor(c)
       /\ c \notin connectors' => ~HeldByCrtc(c)']_vars

\* C15 without the release of the buffers
C15_RemovedConnectorIsSilent ==
  [][\A c \in DOMAIN conn :
       /\ Removed(c) =>
            /\ c \notin futures'
            /\ EventsSent(c) = IF conn[c].connect_sent
                                 THEN <<"Disconnected", "Removed">>
                                 ELSE <<"Removed">>
       /\ c \notin connectors' => ~CommitsFor(c)]_vars

(***************************************************************************)
(* C16: the refetch of the display data in a change pass.                  *)
(***************************************************************************)
\* the step ran handle_drm_change_ as far as init_drm_device
ChangePassRan ==
  last'.pass # <<>> /\ Last(last'.pass).by = "handle_drm_change_"

\* the pass of the step was allowed to preserve connectors
PreserveAny == last'.op \in {"handle_drm_change", "set_enabled"}

\* the monitor that the kernel reports for c is not the one of the display
\* data held for c
MonitorDiffers(c) ==
  LET mon == IF kern.connection[c] = "Connected" THEN kern.monitor[c] ELSE NoMonitor
  IN  \/ mon.manufacturer # conn[c].display.monitor_manufacturer
      \/ mon.name # conn[c].display.monitor_name
      \/ mon.serial_number # conn[c].display.monitor_serial_number

\* connector c had announced itself and is now disabled, or not Connected,
\* or has another monitor
MustDisconnect(c) ==
  /\ conn[c].connect_sent
  /\ \/ ~conn'[c].enabled
     \/ kern.connection[c] # "Connected"
     \/ MonitorDiffers(c)

\* C16: in a change pass, a connector that was there before sends
\* Disconnected (once, and first) and has connect_sent cleared (it is set
\* again only by a Connected event sent later in the pass) exactly when it
\* had announced itself and is disabled, or not Connected any more, or has
\* another monitor; an announced connector for which none of these holds is
\* a candidate of the preserve set when the pass may preserve; a connector
\* that had not announced itself sends no Disconnected and is no candidate
C16_DisconnectedIffChanged ==
  [][ChangePassRan =>
       \A c \in connectors \cap connectors' :
         /\ MustDisconnect(c) =>
              /\ EventsSent(c) # <<>> /\ EventsSent(c)[1] = "Disconnected"
              /\ "Disconnected" \notin SeqRange(Tail(EventsSent(c)))
              /\ conn'[c].connect_sent => "Connected" \in SeqRange(EventsSent(c))
              /\ c \notin Last(last'.pass).candidates
         /\ ~MustDisconnect(c) =>
              /\ "Disconnected" \notin SeqRange(EventsSent(c))
              /\ c \in Last(last'.pass).candidates <=>
                   conn[c].connect_sent /\ PreserveAny]_vars

\* a change pass has just sent Disconnected to a connector that had
\* announced itself and was disabled, its monitor still attached
C16_DisabledConnectorDisconnected ==
  /\ last.op = "set_enabled"
  /\ last.c \in connectors
  /\ ~conn[last.c].enabled
  /\ ~conn[last.c].connect_sent
  /\ conn[last.c].display.connection = "Connected"
  /\ <<last.c, Event("Disconnected", NONE)>> \in SeqRange(last.emitted)

(***************************************************************************)
(* C17: unprocessed_change.                                                *)
(***************************************************************************)
\* the step is handle_drm_change, or a set_enabled that flips enabled on a
\* connector whose display data says Connected: it starts a change pass
StartedChangePass ==
  \/ last'.op = "handle_drm_change"
  \/ /\ last'.op = "set_enabled"
     /\ conn'[last'.c].enabled # conn[last'.c].enabled
     /\ conn[last'.c].display.connection = "Connected"

\* handle_drm_change_ ran in the step and returned Ok
ChangePassOk == ChangePassRan /\ Last(last'.pass).ok

\* C17: a change pass started by handle_drm_change or set_enabled that
\* returns an error leaves unprocessed_change set; unprocessed_change is
\* cleared only by a step whose change pass returns Ok; resume_drm_device
\* called while it is set runs handle_drm_change_ (which either fails while
\* reading the properties or reaches init_drm_device with nothing to
\* preserve) and leaves the flag set when that pass fails
C17_UnprocessedChange ==
  [][/\ StartedChangePass /\ ~ChangePassOk => unprocessed_change'
     /\ unprocessed_change /\ ~unprocessed_change' => ChangePassOk
     /\ unprocessed_change /\ Resumed =>
          /\ last'.pass # <<>> =>
               /\ ChangePassRan
               /\ Last(last'.pass).candidates = {}
               /\ Last(last'.pass).preserve = EmptyPreserve
          /\ ~ChangePassOk => unprocessed_change']_vars

\* resume_drm_device has just rerun the change pass, and it failed again
C17_RerunFailed ==
  /\ last.op = "resume_drm_device"
  /\ last.pass # <<>>
  /\ Last(last.pass).by = "handle_drm_change_"
  /\ Last(last.pass).ran
  /\ ~Last(last.pass).ok
  /\ unprocessed_change

\* resume_drm_device has just rerun the change pass with success
C17_RerunSucceeded ==
  /\ last.op = "resume_drm_device"
  /\ last.pass # <<>>
  /\ Last(last.pass).by = "handle_drm_change_"
  /\ Last(last.pass).ran
  /\ Last(last.pass).ok
  /\ ~unprocessed_change

(***************************************************************************)
(* C18: a connector whose crtc or plane assignment fails in a pass.        *)
(***************************************************************************)
\* init_drm_device ran in the step (there is a render context)
InitRan == last'.pass # <<>> /\ Last(last'.pass).ran

\* the pass of the step logged an assignment error for connector c
FailedIn(c) == \E e \in SeqRange(Last(last'.pass).errors) : e[1] = c

\* after the step connector c is unconfigured: no primary plane, so not
\* connected(); the step did not announce it and did not schedule present
Unconfigured(c) ==
  /\ conn'[c].primary_plane = NONE
  /\ "Connected" \notin SeqRange(EventsSent(c))
  /\ conn'[c].present_trigger => conn[c].present_trigger

\* the pass of the step issued its commit
PassCommitted ==
  \E i \in 1..Len(last'.commits) : last'.commits[i].by = NONE

\* C18: a pass in which the crtc or plane assignment of a connector fails
\* still issues its commit, and that connector ends the pass unconfigured
C18_FailedConnectorUnconfigured ==
  [][InitRan =>
       \A c \in connectors' :
         FailedIn(c) => PassCommitted /\ Unconfigured(c)]_vars

\* the same for the passes that perform the full modeset
C18_FailedConnectorUnconfiguredByModeset ==
  [][InitRan /\ ~Last(last'.pass).fast =>
       \A c \in connectors' :
         FailedIn(c) => PassCommitted /\ Unconfigured(c)]_vars

\* the pass always issues its commit when an assignment failed
C18_PassStillCommits ==
  [][InitRan => \A c \in connectors' : FailedIn(c) => PassCommitted]_vars

(***************************************************************************)
(* C19: create_drm_device that fails.                                      *)
(***************************************************************************)
\* create_drm_device ran in the step and returned an error
CreateFailed ==
  /\ last'.op = "create_drm_device"
  /\ last'.arg \in SeqRange(ConstructionErrors)

\* C19: when create_drm_device returns an error, whichever step failed, it
\* has pushed no NewDrmDevice and no NewConnector event, no task reads the
\* device's events, and the backend holds no connector and no present task
\* of the device
C19_FailedDeviceNotRegistered ==
  [][CreateFailed =>
       /\ last'.backend_events = <<>>
       /\ last'.emitted = <<>>
       /\ ~handle_events'
       /\ connectors' = {} /\ futures' = {}]_vars

\* create_drm_device has just failed in init_drm_device, whose commit the
\* kernel refused
C19_InitialConfigurationFailed ==
  /\ last.op = "create_drm_device"
  /\ last.arg = "Modeset"
  /\ last.commits # <<>>
  /\ Last(last.commits).result # "ok"
  /\ ~handle_events

(***************************************************************************)
(* C20: the framebuffers of displaced buffer pairs.                        *)
(***************************************************************************)
\* the buffer pairs that an object of the backend holds; the framebuffers
\* of every other pair have been destroyed (Drop for DrmFramebuffer)
HeldPairs == LivePairs([s |-> Cur, old_buffers |-> {}])

\* fb is a framebuffer of a buffer pair of the backend
OwnFb(fb) == fb >= FbId(1, 0)

\* the buffer pair of framebuffer fb
PairOfFb(fb) == (fb - 100) \div 2

\* every framebuffer of the backend that a plane scans out by the last
\* successful commit exists
ProgrammedFbsExist ==
  \A p \in DOMAIN kern.plane_fb :
    OwnFb(kern.plane_fb[p]) => PairOfFb(kern.plane_fb[p]) \in HeldPairs

\* every framebuffer of a commit whose flip-complete event has not been
\* read exists
InFlightFbsExist ==
  \A i \in 1..Len(flips) :
    \A fb \in flips[i].fbs : PairOfFb(fb) \in HeldPairs

\* C20: the framebuffers of a buffer pair are not destroyed while a commit
\* that refers to them is in flight, nor while a plane scans one of them out
\* by the last successful commit
C20_ReferencedFramebuffersExist == ProgrammedFbsExist /\ InFlightFbsExist

\* the part about the planes alone
C20_ProgrammedFramebuffersExist == ProgrammedFbsExist

\* the part about the commits in flight alone
C20_InFlightFramebuffersExist == InFlightFbsExist

\* after a pass whose commit succeeded, the planes scan out nothing that
\* was destroyed
C20_SuccessfulPassKeepsProgrammed ==
  [][last'.pass # <<>> /\ Last(last'.pass).ok /\ ProgrammedFbsExist
       => ProgrammedFbsExist']_vars

(***************************************************************************)
(* C21: the planes of the connectors.                                      *)
(***************************************************************************)
\* the planes that connector c holds
PlanesOf(c) == {conn[c].primary_plane, conn[c].cursor_plane} \ {NONE}

\* C21: the primary plane of a connector is a Primary plane and its cursor
\* plane a Cursor plane (so it holds at most one of each), and no plane is
\* held by two connectors of the device
C21_PlanesExclusive ==
  /\ \A c \in connectors :
       /\ conn[c].primary_plane # NONE => inv.ty[conn[c].primary_plane] = "Primary"
       /\ conn[c].cursor_plane # NONE => inv.ty[conn[c].cursor_plane] = "Cursor"
  /\ \A c1, c2 \in connectors : c1 # c2 => PlanesOf(c1) \cap PlanesOf(c2) = {}

(***************************************************************************)
(* C22: the generations of the hardware cursor objects.                    *)
(***************************************************************************)
\* the generations of the objects that the HardwareCursor events of the
\* step carry for connector c, in the order of the events
Advertised(c) ==
  LET ev == SelectSeq(last'.emitted,
                      LAMBDA e : /\ e[1] = c /\ e[2].ty = "HardwareCursor"
                                 /\ e[2].generation # NONE)
  IN  [n \in 1..Len(ev) |-> ev[n][2].generation]

\* C22: cursor_generation of a connector never decreases; an object
\* advertised in a step has a generation above cursor_generation as it was
\* before the step (which bounds every object advertised before) and above
\* that of the objects advertised earlier in the step, and at most
\* cursor_generation as it is after the step; of the objects handed out, at
\* most one has the current generation
C22_GenerationsIncrease ==
  [][\A c \in DOMAIN conn \cap DOMAIN conn' :
       /\ conn'[c].cursor_generation >= conn[c].cursor_generation
       /\ \A o \in hcs[c] : o.generation <= conn[c].cursor_generation
       /\ \A n \in 1..Len(Advertised(c)) :
            /\ Advertised(c)[n] > conn[c].cursor_generation
            /\ Advertised(c)[n] <= conn'[c].cursor_generation
            /\ \A m \in 1..(n - 1) : Advertised(c)[m] < Advertised(c)[n]
       /\ Cardinality({ o \in hcs'[c] :
                          o.generation = conn'[c].cursor_generation }) <= 1]_vars

\* a second object has just been advertised for a connector that still
\* hands out the first
C22_SecondObjectAdvertised ==
  \E c \in connectors :
    /\ conn[c].cursor_generation >= 2
    /\ \E e \in SeqRange(last.emitted) :
         /\ e[1] = c /\ e[2].ty = "HardwareCursor"
         /\ e[2].generation = conn[c].cursor_generation
    /\ Cardinality(hcs[c]) = 2

(***************************************************************************)
(* C23: the order of the events of a connector.                            *)
(***************************************************************************)
RECURSIVE AnnouncedAfter(_, _)
\* evs: the types of the events sent to a connector in a step; announced:
\* "yes" when the connector was announced before them, else "no".  Yields
\* the same for the state after them, or "bad" when a Connected event comes
\* while it is announced or is not followed at once by HardwareCursor, a
\* Disconnected or a HardwareCursor event comes while it is not announced,
\* or an event follows Removed
AnnouncedAfter(evs, announced) ==
  IF evs = <<>> THEN announced
  ELSE IF Head(evs) = "Connected"
    THEN IF announced = "no" /\ Len(evs) >= 2 /\ evs[2] = "HardwareCursor"
           THEN AnnouncedAfter(Tail(Tail(evs)), "yes") ELSE "bad"
  ELSE IF Head(evs) = "Disconnected"
    THEN IF announced = "yes" THEN AnnouncedAfter(Tail(evs), "no") ELSE "bad"
  ELSE IF Head(evs) = "HardwareCursor"
    THEN IF announced = "yes" THEN AnnouncedAfter(Tail(evs), "yes") ELSE "bad"
  ELSE IF Head(evs) = "Removed"
    THEN IF Tail(evs) = <<>> THEN "no" ELSE "bad"
  ELSE "bad"

\* connect_sent as the walk above names it
Sent(b) == IF b THEN "yes" ELSE "no"

\* the step ends with the loop that starts the connectors that are
\* connected()
StartsConnectors == ChangePassOk \/ last'.op = "make_render_device"

\* C23: a Connected event is sent to a connector only while it is not
\* announced, in a step after which it is enabled, Connected and has a
\* primary plane, and the next event is HardwareCursor; a step that starts
\* the connectors leaves no such connector unannounced; Connected and
\* Disconnected alternate (connect_sent tells which is next, and is false
\* at first); HardwareCursor is sent only while the connector is announced;
\* Removed is sent only by the step that removes the connector, as its last
\* event, and nothing is sent to a connector that is gone
C23_EventOrder ==
  [][\A c \in DOMAIN conn \cap DOMAIN conn' :
       /\ c \notin connectors => EventsSent(c) = <<>>
       /\ c \in connectors =>
            /\ AnnouncedAfter(EventsSent(c), Sent(conn[c].connect_sent)) # "bad"
            /\ "Removed" \in SeqRange(EventsSent(c)) <=> Removed(c)
            /\ ~Removed(c) =>
                 /\ Sent(conn'[c].connect_sent) =
                      AnnouncedAfter(EventsSent(c), Sent(conn[c].connect_sent))
                 /\ "Connected" \in SeqRange(EventsSent(c)) =>
                      connected([conn |-> conn'], c)
                 /\ StartsConnectors /\ connected([conn |-> conn'], c) =>
                      conn'[c].connect_sent]_vars

\* a connector that had been announced, disconnected and announced again
\* has just been removed
C23_RemovedAfterReconnect ==
  /\ last.c = NONE
  /\ \E c \in DOMAIN conn :
       /\ c \notin connectors
       /\ conn[c].cursor_generation >= 2
       /\ \E n \in 1..Len(last.emitted) :
            last.emitted[n][1] = c /\ last.emitted[n][2].ty = "Removed"

\* a connector has just been announced: Connected, then HardwareCursor
C23_Announced ==
  \E c \in connectors :
    \E n \in 1..(Len(last.emitted) - 1) :
      /\ last.emitted[n] [1] = c /\ last.emitted[n][2].ty = "Connected"
      /\ last.emitted[n + 1][1] = c /\ last.emitted[n + 1][2].ty = "HardwareCursor"

(***************************************************************************)
(* C24: Connector::set_enabled.                                            *)
(***************************************************************************)
\* the step is set_enabled(c, v) with v other than the enabled value of c
Toggled(c) ==
  /\ last'.op = "set_enabled" /\ last'.c = c
  /\ c \in connectors
  /\ conn'[c].enabled # conn[c].enabled

\* the step ran exactly one change pass: it reached init_drm_device once, or
\* it failed before and left unprocessed_change set
OnePassRan ==
  /\ Len(last'.pass) <= 1
  /\ ChangePassRan \/ (last'.pass = <<>> /\ unprocessed_change')

\* the step changed nothing but the enabled value of c
OnlyEnabledChanged(c) ==
  /\ last'.pass = <<>> /\ last'.commits = <<>> /\ last'.emitted = <<>>
  /\ conn' = [conn EXCEPT ![c].enabled = ~@]
  /\ UNCHANGED <<connectors, futures, crtc, plane, hcs, kern, flips,
                 unprocessed_change, ctx, handle_events>>

\* the step is set_enabled(c, FALSE) on an announced connector whose
\* display data says Connected, and the connector is still there after it
DisabledAnnounced(c) ==
  /\ Toggled(c) /\ conn[c].enabled /\ conn[c].connect_sent
  /\ conn[c].display.connection = "Connected"
  /\ c \in connectors'

\* the step sent Disconnected to c and left c with no crtc and no planes
Released(c) ==
  /\ "Disconnected" \in SeqRange(EventsSent(c))
  /\ conn'[c].crtc = NONE
  /\ conn'[c].primary_plane = NONE
  /\ conn'[c].cursor_plane = NONE

\* C24, first part: set_enabled with another value than the current one
\* runs one change pass
C24_ToggleRunsPass ==
  [][\A c \in DOMAIN conn : Toggled(c) => OnePassRan]_vars

\* C24, last part: after a pass that set_enabled(c, FALSE) ran on an
\* announced connector and that returned Ok, Disconnected has been sent to c
\* and c holds no crtc and no planes
C24_DisableReleasesOk ==
  [][\A c \in DOMAIN conn : DisabledAnnounced(c) /\ ChangePassOk => Released(c)]_vars

\* C24, last part, for the passes that perform the full modeset
C24_DisableReleasesModeset ==
  [][\A c \in DOMAIN conn :
       DisabledAnnounced(c) /\ ChangePassOk /\ ~Last(last'.pass).fast
         => Released(c)]_vars

\* C24, idempotence: set_enabled with the current value changes nothing
C24_Idempotent ==
  \A c \in connectors :
    \A in \in PassInputs(Cur) : set_enabled(Cur, c, conn[c].enabled, in) = Cur

(***************************************************************************)
(* C25: the arrays of a Change under construction.                         *)
(***************************************************************************)
RECURSIVE Staged(_)
\* the writes staged by the calls, in order, each with the object of its call
Staged(calls) ==
  IF calls = <<>> THEN <<>>
  ELSE [n \in 1..Len(Head(calls)[2]) |->
          <<Head(calls)[1], Head(calls)[2][n][1], Head(calls)[2][n][2]>>]
       \o Staged(Tail(calls))

\* C25: in a Change, objects and object_lengths have the same length, every
\* length is at least 1, the lengths add up to the number of props, which is
\* the number of values; the props and values are the staged writes in
\* their order, each in a group of the object it was staged for; adjacent
\* groups name different objects; and a Change begun on recycled buffers
\* holds nothing before the first call
C25_ChangeArrays ==
  builder.live =>
    LET ch == builder.change
        st == Staged(builder.calls)
    IN  /\ Len(ch.objects) = Len(ch.object_lengths)
        /\ \A g \in 1..Len(ch.object_lengths) : ch.object_lengths[g] >= 1
        /\ SumSeq(ch.object_lengths) = Len(ch.props)
        /\ Len(ch.props) = Len(ch.values)
        /\ Len(ch.props) = Len(st)
        /\ \A j \in 1..Len(st) :
             /\ ObjectOf(ch, j) = st[j][1]
             /\ ch.props[j] = st[j][2]
             /\ ch.values[j] = st[j][3]
        /\ \A g \in 2..Len(ch.objects) : ch.objects[g] # ch.objects[g - 1]
        /\ builder.calls = <<>> => ch = EmptyChange

\* a Change begun on recycled buffers has staged writes for A, A, B, with a
\* call in between that staged nothing: two groups, the first of two calls
C25_MergedOnRecycled ==
  /\ builder.live
  /\ builder.reused = 4
  /\ Len(builder.calls) = 4
  /\ builder.calls[2][2] = <<>>
  /\ builder.calls[1][1] = builder.calls[3][1]
  /\ builder.calls[3][1] # builder.calls[4][1]
  /\ Len(builder.change.objects) = 2
  /\ builder.change.object_lengths = <<3, 1>>

(***************************************************************************)
(* C26: which commits carry ALLOW_MODESET.                                 *)
(***************************************************************************)
\* the commits of the step that init_drm_device issued (those of present()
\* are by the connector), in order
PassCommits == SelectSeq(last'.commits, LAMBDA co : co.by = NONE)

\* the crtcs that the connectors use that are enabled and Connected after
\* the step, as can_use_current_drm_mode collects them
UsedCrtcs ==
  { conn'[c].display.crtc_id :
      c \in { k \in connectors' :
                conn'[k].enabled /\ conn'[k].display.connection = "Connected" } }

\* crtc.active as can_use_current_drm_mode reads it: the kernel's value when
\* the pass began with update_device_properties, else the value held
ActiveBefore(x) ==
  IF Last(last'.pass).by = "make_render_device"
    THEN crtc[x].active ELSE kern.crtc_active[x]

\* C26: a commit of present() carries NONBLOCK and PAGE_FLIP_EVENT and
\* nothing else; a pass that uses the current mode issues two commits, the
\* main one, last and without ALLOW_MODESET, and before it the one that
\* deactivates the crtcs, with ALLOW_MODESET iff a crtc that is not in use
\* was active; a pass that does not use the current mode issues its main
\* commit with ALLOW_MODESET
C26_AllowModeset ==
  [][/\ \A n \in 1..Len(last'.commits) :
          last'.commits[n].by # NONE =>
            last'.commits[n].flags = {DRM_MODE_ATOMIC_NONBLOCK, DRM_MODE_PAGE_FLIP_EVENT}
     /\ Len(last'.pass) <= 1
     /\ ~InitRan => PassCommits = <<>>
     /\ InitRan /\ Last(last'.pass).fast =>
          /\ Len(PassCommits) = 2
          /\ PassCommits[2].flags = {}
          /\ PassCommits[1].result = "ok"
          /\ PassCommits[1].flags \subseteq {DRM_MODE_ATOMIC_ALLOW_MODESET}
          /\ DRM_MODE_ATOMIC_ALLOW_MODESET \in PassCommits[1].flags
               <=> \E x \in SeqRange(inv.crtcs) : x \notin UsedCrtcs /\ ActiveBefore(x)
     /\ InitRan /\ ~Last(last'.pass).fast =>
          /\ Len(PassCommits) \in 1..2
          /\ Last(PassCommits).flags = {DRM_MODE_ATOMIC_ALLOW_MODESET}
          /\ Len(PassCommits) = 2 => PassCommits[1].result # "ok"]_vars

\* a pass has just used the current mode, after deactivating a crtc that was
\* active and not in use: two commits, the first one alone with ALLOW_MODESET
C26_DeactivatedUnusedCrtc ==
  /\ last.pass # <<>> /\ Last(last.pass).ran /\ Last(last.pass).fast
  /\ Len(last.commits) = 2
  /\ last.commits[1].flags = {DRM_MODE_ATOMIC_ALLOW_MODESET}
  /\ "ACTIVE" \in SeqRange(last.commits[1].props)
  /\ last.commits[2].flags = {}
  /\ last.commits[2].result = "ok"

\* a pass has just used the current mode with every active crtc in use
C26_FastPathNoModeset ==
  /\ last.pass # <<>> /\ Last(last.pass).ran /\ Last(last.pass).fast
  /\ Len(last.commits) = 2
  /\ last.commits[1].flags = {}
  /\ last.commits[2].flags = {}

(***************************************************************************)
(* C27: the preserve set after validate_preserve.                          *)
(***************************************************************************)
\* what validate_preserve read of the kept connector c
Seen(c) == Last(last'.pass).seen[c]

\* C27 as stated: every connector that validate_preserve keeps exists, the
\* kernel reports its bound crtc for it, the crtc is active and its mode
\* blob decodes to the desired mode, the primary plane is on that crtc, the
\* cursor plane is on that crtc or on none; and the planes and crtcs of the
\* preserve set are those of the kept connectors
C27_PreservedAreValid ==
  [][InitRan =>
       LET pr == Last(last'.pass).preserve
       IN  /\ \A c \in pr.connectors :
                /\ Seen(c).exists
                /\ Seen(c).crtc # NONE
                /\ Seen(c).crtc_id = Seen(c).crtc
                /\ Seen(c).active
                /\ Seen(c).mode # <<>> /\ Seen(c).current_mode # <<>>
                /\ modes_equal(Seen(c).mode[1], Seen(c).current_mode[1])
                /\ Seen(c).primary_plane # NONE
                /\ Seen(c).primary_crtc_id = Seen(c).crtc
                /\ Seen(c).cursor_plane # NONE =>
                     Seen(c).cursor_crtc_id \in {NONE, Seen(c).crtc}
           /\ pr.planes = ({ Seen(c).primary_plane : c \in pr.connectors }
                           \cup { Seen(c).cursor_plane : c \in pr.connectors }) \ {NONE}
           /\ pr.crtcs = { Seen(c).crtc : c \in pr.connectors } \ {NONE}]_vars

\* C27 for what the connector has: a kept connector exists; if it has a
\* crtc, the kernel reports that crtc for it, the crtc is active, the mode
\* blob of the crtc decodes to the desired mode if there is one, the primary
\* plane, if any, is on that crtc, the cursor plane, if any, on that crtc or
\* on none; the planes and crtcs of the preserve set are those of the kept
\* connectors
C27_PreservedAreValidIfBound ==
  [][InitRan =>
       LET pr == Last(last'.pass).preserve
       IN  /\ \A c \in pr.connectors :
                /\ Seen(c).exists
                /\ Seen(c).crtc # NONE =>
                     /\ Seen(c).crtc_id = Seen(c).crtc
                     /\ Seen(c).active
                     /\ Seen(c).mode # <<>> =>
                          /\ Seen(c).current_mode # <<>>
                          /\ modes_equal(Seen(c).mode[1], Seen(c).current_mode[1])
                     /\ Seen(c).primary_plane # NONE =>
                          Seen(c).primary_crtc_id = Seen(c).crtc
                     /\ Seen(c).cursor_plane # NONE =>
                          Seen(c).cursor_crtc_id \in {NONE, Seen(c).crtc}
           /\ pr.planes = ({ Seen(c).primary_plane : c \in pr.connectors }
                           \cup { Seen(c).cursor_plane : c \in pr.connectors }) \ {NONE}
           /\ pr.crtcs = { Seen(c).crtc : c \in pr.connectors } \ {NONE}]_vars

(***************************************************************************)
(* C28: what a successful change pass leaves of a preserved connector.     *)
(***************************************************************************)
\* C28: after a change pass that returned Ok, every connector that the pass
\* preserved and that is enabled, Connected and announced has a crtc and a
\* primary plane
C28_PreservedAreConfigured ==
  [][ChangePassOk =>
       \A c \in Last(last'.pass).preserve.connectors :
         ( /\ conn'[c].enabled
           /\ conn'[c].display.connection = "Connected"
           /\ conn'[c].connect_sent )
         => conn'[c].crtc # NONE /\ conn'[c].primary_plane # NONE]_vars

\* the same for the connectors that had a primary plane when the pass began
C28_ConfiguredStayConfigured ==
  [][ChangePassOk =>
       \A c \in Last(last'.pass).preserve.connectors :
         conn[c].crtc # NONE /\ conn[c].primary_plane # NONE
         => /\ conn'[c].crtc = conn[c].crtc
            /\ conn'[c].primary_plane = conn[c].primary_plane]_vars

(***************************************************************************)
(* C29: a connector for which no cursor plane or no cursor buffer is to be *)
(* had.                                                                    *)
(***************************************************************************)
\* assign_connector_planes ran for c in the pass of the step and returned Ok
\* after it chose a primary plane
AssignedIn(c) ==
  /\ InitRan
  /\ c \in connectors'
  /\ c \notin Last(last'.pass).preserve.connectors
  /\ ~FailedIn(c)
  /\ conn'[c].crtc # NONE
  /\ conn'[c].display.mode # <<>>

\* the Cursor planes that support ARGB8888 among the possible planes of the
\* crtc of c
CursorPlanesFor(c) ==
  { p \in possible_planes(inv, conn'[c].crtc) :
      inv.ty[p] = "Cursor" /\ ARGB8888 \in inv.formats[p] }

\* plane p is kept from c in the pass: it is preserved, or the pass gave it
\* to another connector
TakenFrom(p, c) ==
  \/ p \in Last(last'.pass).preserve.planes
  \/ \E c2 \in connectors' \ {c} : AssignedIn(c2) /\ conn'[c2].cursor_plane = p

\* the allocation of the cursor buffers of c failed in the pass
CursorBuffersFailed(c) ==
  InitRan /\ <<c, "CursorBuffers">> \in SeqRange(Last(last'.pass).warnings)

\* the pass left c with a primary plane and buffers and without cursor: no
\* cursor plane, no cursor buffers, no Cursor plane marked assigned for it,
\* and the HardwareCursor events of the step carry no object
WithoutCursor(c) ==
  /\ conn'[c].primary_plane # NONE
  /\ plane'[conn'[c].primary_plane].assigned
  /\ conn'[c].buffers # NoBuffers
  /\ conn'[c].cursor_plane = NONE
  /\ conn'[c].cursor_buffers = NoBuffers
  /\ \A p \in CursorPlanesFor(c) : plane'[p].assigned => TakenFrom(p, c)
  /\ Advertised(c) = <<>>

\* C29: when the cursor buffers of a connector cannot be allocated, or every
\* Cursor plane of its crtc is taken, assign_connector_planes still returns
\* Ok and the connector has its primary plane and buffers, no cursor plane and
\* no cursor buffers; no Cursor plane is marked assigned for it and the
\* HardwareCursor event that follows carries no object; and present()
\* leaves the cursor plane and the cursor buffers of the connector and the
\* assigned marks as they are, and commits nothing to a Cursor plane for a
\* connector without cursor plane
C29_CursorIsOptional ==
  [][\A c \in DOMAIN conn :
       /\ CursorBuffersFailed(c) => AssignedIn(c) /\ WithoutCursor(c)
       /\ (AssignedIn(c) /\ \A p \in CursorPlanesFor(c) : TakenFrom(p, c))
            => WithoutCursor(c)
       /\ (last'.op = "present" /\ last'.c = c) =>
            /\ conn'[c].cursor_plane = conn[c].cursor_plane
            /\ conn'[c].cursor_buffers = conn[c].cursor_buffers
            /\ plane' = plane
            /\ conn[c].cursor_plane = NONE =>
                 \A n \in 1..Len(last'.commits) :
                   \A p \in SeqRange(last'.commits[n].objects) :
                     p \in inv.planes => inv.ty[p] # "Cursor"]_vars

\* a connector whose cursor buffers could not be allocated has just
\* presented a frame on its primary plane
C29_PresentedWithoutCursor ==
  /\ last.op = "present" /\ last.commits # <<>>
  /\ last.commits[1].result = "ok"
  /\ conn[last.c].cursor_plane = NONE
  /\ conn[last.c].primary_plane # NONE
  /\ \E p \in inv.planes : inv.ty[p] = "Cursor" /\ ~plane[p].assigned

\* a pass has just given the only Cursor plane to one connector and none to
\* the other, which has its primary plane
C29_NoCursorPlaneLeft ==
  /\ last.pass # <<>> /\ Last(last.pass).ran /\ Last(last.pass).warnings = <<>>
  /\ \E c1, c2 \in connectors :
       /\ conn[c1].cursor_plane # NONE /\ plane[conn[c1].cursor_plane].assigned
       /\ conn[c2].cursor_plane = NONE /\ conn[c2].primary_plane # NONE
       /\ conn[c2].crtc # NONE
       /\ conn[c1].cursor_plane \in possible_planes(inv, conn[c2].crtc)

(***************************************************************************)
(* C30: the crtc of a connector is one that it can reach.                  *)
(***************************************************************************)
\* every connector that has a crtc has one of the crtcs of its display data
CrtcsReachable(cn, cs) ==
  \A c \in cs : cn[c].crtc # NONE => cn[c].crtc \in cn[c].display.crtcs

\* the pass of the step logged NoCrtcForConnector for c
NoCrtcFor(c) ==
  InitRan /\ <<c, "NoCrtcForConnector">> \in SeqRange(Last(last'.pass).errors)

\* the writes to object obj in the commits of the step, as <<property, value>>
WritesTo(obj) ==
  UNION { { <<last'.commits[n].props[j], last'.commits[n].values[j]>> :
              j \in { i \in 1..Len(last'.commits[n].props) :
                        ObjectOf(last'.commits[n], i) = obj } } :
          n \in 1..Len(last'.commits) }

\* C30: a connector that has a crtc has one of the crtcs of its display
\* data; a pass logs NoCrtcForConnector for a connector only on the full
\* path and only when every crtc of its display data has a connector, and
\* then the connector has no crtc and no planes, no crtc has it as its
\* connector, and nothing is written to it but the CRTC_ID of 0 of the
\* reset; and on the full path an enabled, Connected connector with a mode
\* that is not preserved and ends without crtc has that error logged
C30_CrtcReachable ==
  [][/\ CrtcsReachable(conn, connectors)
     /\ CrtcsReachable(conn', connectors')
     /\ \A c \in connectors' :
          /\ NoCrtcFor(c) =>
               /\ ~Last(last'.pass).fast
               /\ \A x \in conn'[c].display.crtcs : crtc'[x].connector \notin {NONE, c}
               /\ conn'[c].crtc = NONE
               /\ conn'[c].display.crtc_id = NONE
               /\ conn'[c].primary_plane = NONE /\ conn'[c].cursor_plane = NONE
               /\ \A x \in DOMAIN crtc : crtc'[x].connector # c
               /\ WritesTo(c) \subseteq {<<"CRTC_ID", NONE>>}
          /\ ( /\ InitRan /\ ~Last(last'.pass).fast
               /\ c \notin Last(last'.pass).preserve.connectors
               /\ conn'[c].enabled /\ conn'[c].display.connection = "Connected"
               /\ conn'[c].display.mode # <<>>
               /\ conn'[c].crtc = NONE )
             => NoCrtcFor(c)]_vars

\* a pass has just performed the full modeset and refused a connector whose
\* only crtc it had given to the other connector, while a crtc that the
\* refused connector does not reach is free
C30_SecondConnectorRefused ==
  /\ last.pass # <<>> /\ Last(last.pass).ran /\ ~Last(last.pass).fast
  /\ \E c1, c2 \in connectors :
       /\ conn[c1].crtc # NONE /\ conn[c1].crtc \in conn[c2].display.crtcs
       /\ conn[c2].crtc = NONE
       /\ <<c2, "NoCrtcForConnector">> \in SeqRange(Last(last.pass).errors)
       /\ \E x \in DOMAIN crtc :
            crtc[x].connector = NONE /\ x \notin conn[c2].display.crtcs

\* a pass has just used the current mode, and a connector has the crtc that
\* the kernel reports for it while it does not reach every crtc
C30_BoundOnFastPath ==
  /\ last.pass # <<>> /\ Last(last.pass).ran /\ Last(last.pass).fast
  /\ \E c \in connectors :
       /\ conn[c].crtc # NONE
       /\ conn[c].display.crtcs # DOMAIN crtc

(***************************************************************************)
(* C31: the connectors that a successful change pass starts.               *)
(***************************************************************************)
\* C31: after a change pass that returned Ok, every connector that is
\* enabled, Connected and has a primary plane has has_damage and
\* cursor_changed set, a present scheduled, and is announced; if the pass did
\* not preserve it, it also has can_present set
C31_ConnectedAreStarted ==
  [][ChangePassOk =>
       \A c \in connectors' :
         connected([conn |-> conn'], c) =>
           /\ conn'[c].has_damage
           /\ conn'[c].cursor_changed
           /\ conn'[c].present_trigger
           /\ conn'[c].connect_sent
           /\ c \notin Last(last'.pass).preserve.connectors => conn'[c].can_present]_vars

\* a change pass has just returned Ok; it preserved a connector whose
\* commit is outstanding, which it armed again while can_present stays
\* false, and it lit another connector, which can present
C31_PreservedAndNewStarted ==
  /\ last.pass # <<>> /\ Last(last.pass).by = "handle_drm_change_"
  /\ Last(last.pass).ok /\ Last(last.pass).ran
  /\ \E c1, c2 \in connectors :
       /\ c1 \in Last(last.pass).preserve.connectors
       /\ connected(Cur, c1) /\ ~conn[c1].can_present
       /\ conn[c1].has_damage /\ conn[c1].present_trigger
       /\ c2 \notin Last(last.pass).preserve.connectors
       /\ connected(Cur, c2) /\ conn[c2].can_present
       /\ \E n \in 1..Len(last.emitted) :
            last.emitted[n][1] = c2 /\ last.emitted[n][2].ty = "Connected"

(***************************************************************************)
(* C32: the buffer that a present() with damage renders into.              *)
(***************************************************************************)
\* the framebuffer that the last successful commit staged for the primary
\* plane of connector c
ScannedOut(c) == kern.plane_fb[conn[c].primary_plane]

\* C32: a present() with damage never renders into, and stages, the buffer
\* whose framebuffer the most recent successful commit staged for the
\* primary plane of the connector
C32_RendersIntoBackBuffer ==
  [][\A c \in connectors :
       PresentedDamage(c) =>
         /\ FbId(conn[c].buffers.id, StagedBuffer(c)) # ScannedOut(c)
         /\ \A n \in 1..Len(last'.renders) :
              last'.renders[n].op = "render" =>
                FbId(last'.renders[n].pair, last'.renders[n].buffer) # ScannedOut(c)]_vars

(***************************************************************************)
(* C33: what a present() whose commit fails leaves behind.                 *)
(***************************************************************************)
\* the step is a present() of connector c whose commit the kernel rejected
PresentFailed(c) == PresentCommitted(c) /\ last'.commits[1].result # "ok"

\* C33: a present() whose commit fails leaves has_damage, cursor_changed,
\* can_present, next_buffer, cursor_front_buffer and cursor_swap_buffer of
\* the connector as they were before the call
C33_FailedPresentRestores ==
  [][\A c \in connectors :
       PresentFailed(c) =>
         /\ conn'[c].has_damage = conn[c].has_damage
         /\ conn'[c].cursor_changed = conn[c].cursor_changed
         /\ conn'[c].can_present = conn[c].can_present
         /\ conn'[c].next_buffer = conn[c].next_buffer
         /\ conn'[c].cursor_front_buffer = conn[c].cursor_front_buffer
         /\ conn'[c].cursor_swap_buffer = conn[c].cursor_swap_buffer]_vars

\* C33, the three flags only: a present() whose commit fails leaves
\* has_damage, cursor_changed and can_present as they were
C33_FailedPresentKeepsFlags ==
  [][\A c \in connectors :
       PresentFailed(c) =>
         /\ conn'[c].has_damage = conn[c].has_damage
         /\ conn'[c].cursor_changed = conn[c].cursor_changed
         /\ conn'[c].can_present = conn[c].can_present]_vars

(***************************************************************************)
(* C34: damage leads to a commit.                                          *)
(***************************************************************************)
\* connector c is configured: its crtc is active, it has a primary plane and
\* buffers, and the render context is present
Configured(c) ==
  /\ conn[c].crtc # NONE /\ crtc[conn[c].crtc].active
  /\ conn[c].primary_plane # NONE
  /\ conn[c].buffers # NoBuffers
  /\ check_render_context(Cur)

\* damage() has just been called on connector c
JustDamaged(c) == last.op = "damage" /\ last.c = c

\* present() has just issued a commit for connector c that succeeded and
\* that stages a framebuffer of its buffers for its primary plane
JustStaged(c) ==
  /\ last.op = "present" /\ last.c = c
  /\ Len(last.commits) = 1 /\ last.commits[1].result = "ok"
  /\ \E j \in 1..Len(last.commits[1].props) :
       /\ last.commits[1].props[j] = "FB_ID"
       /\ ObjectOf(last.commits[1], j) = conn[c].primary_plane
       /\ OwnFb(last.commits[1].values[j])
       /\ PairOfFb(last.commits[1].values[j]) = conn[c].buffers.id

PassRan == \E n \in 1..Len(last'.pass) : last'.pass[n].ran

\* C35: after every reconfiguration pass, the crtc of every connector of the
\* device refers back to that connector, and no two connectors of the device
\* are bound to the same crtc
C35_BindingsConsistent ==
  [][PassRan =>
       /\ \A c \in connectors' :
            conn'[c].crtc # NONE => crtc'[conn'[c].crtc].connector = c
       /\ \A c1, c2 \in connectors' :
            conn'[c1].crtc # NONE /\ conn'[c1].crtc = conn'[c2].crtc => c1 = c2]_vars

(***************************************************************************)
(* C36: the buffers of the hardware cursor object whose commit applies.    *)
(***************************************************************************)
\* the step is a commit() on the hardware cursor object o of connector c
\* that took effect: o is of the current generation and had changes
CursorCommitApplied(c, o) ==
  /\ CurrentCursorCommitted(c)
  /\ o \in hcs[c] /\ o.generation = last'.arg
  /\ o.have_changes

\* C36: whenever the commit() of a hardware cursor object takes effect, the
\* buffer pair that the object holds is the cursor_buffers pair of its
\* connector
C36_CommittedPairIsCurrent ==
  [][\A c \in connectors : \A o \in hcs[c] :
       CursorCommitApplied(c, o) => o.cursor_buffers = conn[c].cursor_buffers]_vars

(***************************************************************************)
(* C37: no present commit for a disabled connector.                        *)
(***************************************************************************)
\* C37: present() issues no commit for a connector whose enabled flag is
\* false
C37_NoCommitWhileDisabled ==
  [][\A c \in connectors : PresentCommitted(c) => conn[c].enabled]_vars

(***************************************************************************)
(* C38: the commits of present() are not empty.                            *)
(***************************************************************************)
\* C38: every atomic commit that present() issues contains at least one
\* property write
C38_PresentCommitNotEmpty ==
  [][\A c \in connectors :
       PresentCommitted(c) =>
         \A n \in 1..Len(last'.commits) : Len(last'.commits[n].props) >= 1]_vars

(***************************************************************************)
(* C39: the mode of the connectors that are started.                       *)
(***************************************************************************)
\* C39: whenever a change pass or a render-device switch starts a connector
\* (one that is enabled, Connected and has a primary plane), the display data
\* of that connector has a chosen mode, which start_connector and
\* send_connected unwrap
C39_StartedHaveMode ==
  [][StartsConnectors =>
       \A c \in connectors' :
         connected([conn |-> conn'], c) => conn'[c].display.mode # <<>>]_vars

\* C39, for the connectors that the step announced: send_connected finds a
\* mode to unwrap
C39_AnnouncedHaveMode ==
  [][\A c \in connectors' :
       (\E n \in 1..Len(last'.emitted) :
          last'.emitted[n][1] = c /\ last'.emitted[n][2].ty = "Connected")
       => conn'[c].display.mode # <<>>]_vars

\* the step is an iteration of the loop of event() after which the loop goes on
EventIterated == master.pc = "loop" /\ master'.pc = "loop"

\* C40: event() terminates for every byte content read: every iteration of
\* its loop that does not return leaves fewer bytes to parse than it found,
\* whatever the length field of the record says (0 included)
C40_IterationConsumes ==
  [][EventIterated => Len(master'.buf) < Len(master.buf)]_vars

\* C40, the part that holds: an iteration over a record whose length field
\* is not 0 leaves fewer bytes to parse, a FlipComplete is queued behind the
\* events already queued exactly for a record of that type, and a read whose
\* parse has ended is returned from with nothing left to parse
C40_NonZeroLengthConsumes ==
  [][/\ EventIterated =>
          /\ U32At(master.buf, 4) # 0 => Len(master'.buf) < Len(master.buf)
          /\ master'.events =
               IF U32At(master.buf, 0) = DRM_EVENT_FLIP_COMPLETE
                 THEN Append(master.events, FlipComplete(master.buf))
                 ELSE master.events
     /\ (master.pc = "loop" /\ master'.pc = "idle" /\ master'.ret.tag = "Ok")
          => master.buf = <<>>]_vars

\* a read of two flip-complete records has been parsed to its end: both
\* events are queued in the order of arrival and event() is about to return
C40_TwoFlipsQueued ==
  /\ master.pc = "loop" /\ master.buf = <<>>
  /\ Len(master.events) = 2
  /\ master.events[1].crtc_id = 41 /\ master.events[2].crtc_id = 42

\* the loop of event() has run MaxIterations times over a record whose
\* length field is 0 and still has all of it to parse
C40_StuckOnZeroLength ==
  /\ master.pc = "loop" /\ master.iterations = MaxIterations
  /\ Len(master.buf) >= DrmEventSize /\ U32At(master.buf, 4) = 0

=========================================================================
